---- MODULE Spec2Model ----
(***************************************************************************)
(* Desired-state reconciliation of the environment manager.                *)
(*                                                                         *)
(* The model follows backend/internal/state/manager.go: one reconciliation *)
(* pass (Manager.RestoreOnStartup) over the desired-state document, the    *)
(* per-entity container configs and the container runtime, and the sync    *)
(* wrapper (Manager.SyncFromGit) that runs a pass and returns a SyncResult.*)
(* Every runtime call of a pass is one step, so that a failure can be      *)
(* injected at each call and the order of the calls can be observed.       *)
(***************************************************************************)
EXTENDS Integers, Sequences, FiniteSets, TLC

\* ---------------------------------------------------------------- bounds
NumIds == 2        \* entity ids that may appear in the document / config dir
NumNames == 2      \* container names known to the runtime or to configs
MaxFailures == 1   \* injected I/O or runtime failures per behaviour
NumProjects == 1   \* compose project names
MaxRequests == 3   \* volume or repository requests served per behaviour
MaxAPIRequests == 2 \* container and compose requests served per behaviour
NumKeys == 2       \* ids / names of documents in one kind directory
MaxBackups == 3    \* BackupVolume calls on the volume per behaviour
NumCalls == 2      \* calls or requests in flight at the same time

Ids == 1..NumIds
Names == 1..NumNames
Procs == 1..NumCalls

\* ------------------------------------------------------------ data model
\* containers/<id>.yaml missing or unparsable
NoConfig == [ID |-> 0, Name |-> 0]
\* id is not a key of desiredState.Containers
NoEntry == [desired_state |-> "", last_known_state |-> ""]
\* models.ContainerConfig, as far as the reconciler reads it
ContainerConfig(id, name) == [ID |-> id, Name |-> name]
Absent == [id |-> 0, state |-> "absent"]   \* no container of that name

\* desired_state is a free string (Update stores whatever the request holds)
DesiredValues == {"running", "stopped", "paused"}

\* models.ContainerState as written by UpdateContainerState
ContainerState(s) == [desired_state |-> s, last_known_state |-> s]

\* no request served yet
NoRequest == [op |-> "", key |-> 0, code |-> "", commit |-> FALSE]

VARIABLES
    desiredStateFile,    \* state/desired-state.yaml: id -> ContainerState | NoEntry
    containerConfigs,    \* containers/<id>.yaml:     id -> ContainerConfig | NoConfig
    dockerContainers,    \* the runtime: name -> [id, state]
    nextID,              \* next runtime id the daemon hands out
    pc,                  \* position of the pass
    trigger,             \* who called the pass: "startup" | "sync"
    desiredState,        \* local: the loaded document
    existingContainers,  \* local: name -> runtime id, built from the listing
    todo,                \* local: keys the range loop has not visited yet
    cur,                 \* local: id, cfg.Name and runtime id of the entry in hand
    err,                 \* return value of RestoreOnStartup
    syncResult,          \* *models.SyncResult of SyncFromGit
    syncErr,             \* second return value of SyncFromGit
    calls,               \* history: fallible calls issued by the current pass
    visited,             \* history: keys in the order the range loop took them
    failures,            \* history: failures injected so far
    passesLeft,          \* passes still to run in this behaviour
    afterPass            \* history: runtime state at the end of each pass

\* a sync trigger (handlers/git.go, handlers/webhook.go, git/repository.go)
VARIABLES
    remote,              \* Repository.remote is not ""
    handler,             \* position of the trigger being served
    kind,                \* the trigger: "Sync" | "GitHub" | "GitLab" | "Generic"
    pullErr,             \* what Pull returned: "unset" | "nil" | "failed"
    response,            \* what the trigger answered
    payloadRef           \* payload.Ref of the webhook, "none" without a payload

syncVars == <<remote, handler, kind, pullErr, response, payloadRef>>

\* concurrent calls of the state tracker (state/manager.go 106-131)
VARIABLES
    call,                \* per call: its arguments, position, locals and result
    fileTail,            \* bytes of an older, longer content left after the
                         \* document in desired-state.yaml, in entries; 0: none
    lastWriter           \* history: the call whose write came last

trackerVars == <<call, fileTail, lastWriter>>

\* the API handlers (handlers/containers.go 151-327, handlers/logs.go 187-306)
VARIABLES
    byName,              \* desired-state.yaml: containers keyed by a runtime name
    composeConfigs,      \* compose/<project>/config.yaml exists
    composeStates,       \* desired-state.yaml: compose_projects
    last,                \* the request served last and its answer
    requests,            \* requests served so far
    cfgDesired           \* containers/<id>.yaml: desired_state, "" without a file

apiVars == <<byName, composeConfigs, composeStates, last, requests, cfgDesired>>

\* one kind directory of the config store (config/loader.go 24-226)
VARIABLES
    dirKind,             \* the kind: "containers" | "volumes" | "compose"
    dirExists,           \* the kind directory exists
    files,               \* key -> content of the document file of that key
    lastOp,              \* the loader call made last and what it returned
    lastSave,            \* history: the config saved by the last call, if a save
    listCall              \* the list call in progress

loaderVars == <<dirKind, dirExists, files, lastOp, lastSave, listCall>>

\* the backups of one volume (backup.Scheduler, handlers/containers.go 641-804)
VARIABLES
    backupDir,           \* backups/volumes/<volume> exists
    archives,            \* its entries other than backup.tar.gz
    tmpFile,             \* backups/volumes/<volume>/backup.tar.gz
    worker,              \* the temporary container that runs tar
    backup,              \* the BackupVolume call: position, locals, result
    volume,              \* volumes/<volume>.yaml as it parses, or NoFile
    commits,             \* the messages of the commits made, oldest first
    zone                 \* offset of the server's local time from UTC

backupVars == <<backupDir, archives, tmpFile, worker, backup, volume, commits,
                zone>>

\* the backup schedule and the volume handlers (handlers/containers.go 589-638,
\* unnamed/part_000 105-217)
VARIABLES
    volumeFiles,         \* key -> volumes/<key>.yaml as it parses, or NoFile
    cron,                \* s.cron: its entries and whether it runs
    volReq,              \* per handler goroutine: the request it serves
    volServed,           \* requests begun
    schedStarted         \* main.go has called Start

schedVars == <<volumeFiles, cron, volReq, volServed, schedStarted>>

\* a second reconciliation pass, while it is not the one taking a step
VARIABLES peer

peerVars == <<peer>>

\* the git repository of the data directory (git/repository.go)
VARIABLES repo

gitVars == <<repo>>

\* overlapping backups of one volume, step by step (handlers/containers.go
\* 641-719)
VARIABLES
    job,                 \* per caller: where its BackupVolume call stands
    disk,                \* the backup directory, the volume's config, the commits
    clock                \* time.Now(), in seconds

stepVars == <<job, disk, clock>>

\* Scheduler.RestoreVolume (handlers/containers.go 807-854)
VARIABLES
    restore,             \* where the RestoreVolume call and its worker stand
    data                 \* what the volume holds

restoreVars == <<restore, data>>

\* containers of the runtime that env-manager did not create
VARIABLES foreign        \* runtime ids without the env-manager.managed label

foreignVars == <<foreign>>

\* a container Stop request served while a pass runs (containers.go 308-327)
VARIABLES stopReq        \* the request: its id, position, locals and answer

stopVars == <<stopReq>>

lateVars == <<stepVars, restoreVars, foreignVars, stopVars>>

moreVars == <<schedVars, peerVars, gitVars, lateVars>>

\* what the reconciler and its callers in main.go never touch
outside == <<syncVars, trackerVars, apiVars, loaderVars, backupVars, moreVars>>

exceptSync == <<trackerVars, apiVars, loaderVars, backupVars, moreVars>>
exceptTracker == <<syncVars, apiVars, loaderVars, backupVars, moreVars>>
exceptAPI == <<syncVars, trackerVars, loaderVars, backupVars, moreVars>>
exceptLoader == <<syncVars, trackerVars, apiVars, backupVars, moreVars>>
exceptBackup == <<syncVars, trackerVars, apiVars, loaderVars, moreVars>>
exceptScheduler == <<syncVars, trackerVars, apiVars, loaderVars, backupVars,
                     peerVars, gitVars, lateVars>>
exceptPeer == <<syncVars, trackerVars, apiVars, loaderVars, backupVars,
                schedVars, gitVars, lateVars>>
exceptGit == <<syncVars, trackerVars, apiVars, loaderVars, backupVars,
               schedVars, peerVars, lateVars>>
early == <<syncVars, trackerVars, apiVars, loaderVars, backupVars,
           schedVars, peerVars, gitVars>>
exceptSteps == <<early, restoreVars, foreignVars, stopVars>>
exceptRestore == <<syncVars, trackerVars, apiVars, loaderVars, schedVars,
                   peerVars, gitVars, stepVars, foreignVars, stopVars>>

vars == <<desiredStateFile, containerConfigs, dockerContainers, nextID, pc,
          trigger, desiredState, existingContainers, todo, cur, err,
          syncResult, syncErr, calls, visited, failures, passesLeft,
          afterPass, outside>>

store == <<desiredStateFile, containerConfigs>>
locals == <<desiredState, existingContainers, todo, cur>>
runtime == <<dockerContainers, nextID>>
passLocal == <<pc, trigger, locals, err, syncResult, syncErr, calls, visited,
               passesLeft, afterPass>>
passVars == <<passLocal, failures>>

\* --------------------------------------------------------------- helpers
\* outcomes the environment may give a fallible call
Outcomes == IF failures < MaxFailures THEN {TRUE, FALSE} ELSE {TRUE}

Failed(ok) == IF ok THEN failures ELSE failures + 1

NoCur == [id |-> 0, name |-> 0, rid |-> 0]

NilResult == [Success |-> FALSE, Errors |-> <<>>, ContainersAdded |-> {},
              ContainersUpdated |-> {}, ContainersRemoved |-> {}]

Call(cmd, ok, st) ==
    [cmd |-> cmd, ent |-> cur.id, name |-> cur.name, ok |-> ok, st |-> st]

\* ---------------------------------------------------------- config store
\* Loader.LoadDesiredState: the Containers map of the document
LoadDesiredState(file) ==
    [i \in {j \in Ids : file[j] # NoEntry} |-> file[i]]

\* Loader.LoadContainerConfig: the config of id, or an error
LoadContainerConfig(cfgs, id) == cfgs[id]

\* -------------------------------------------------------- docker client
Present(rt) == {n \in Names : rt[n] # Absent}

HasID(rt, rid) == \E n \in Names : rt[n] # Absent /\ rt[n].id = rid

NameOfID(rt, rid) == CHOOSE n \in Names : rt[n] # Absent /\ rt[n].id = rid

\* Client.ListContainers(true): every container, whatever its state
ListContainers(rt) == {[ID |-> rt[n].id, Name |-> n] : n \in Present(rt)}

\* Client.CreateContainer: the daemon refuses a name that is in use
CanCreate(rt, name) == rt[name] = Absent

CreateContainer(rt, name, rid) ==
    [rt EXCEPT ![name] = [id |-> rid, state |-> "created"]]

\* Client.StartContainer: a no-op on a running container
StartContainer(rt, rid) ==
    [rt EXCEPT ![NameOfID(rt, rid)].state = "running"]

\* Client.StopContainer: a no-op on a container that is not running
StopContainer(rt, rid) ==
    LET n == NameOfID(rt, rid) IN
    IF rt[n].state = "running" THEN [rt EXCEPT ![n].state = "exited"] ELSE rt

\* Client.GetContainerStatus: status.State of the inspected container
GetContainerStatus(rt, rid) == rt[NameOfID(rt, rid)].state

\* ------------------------------------------------------------ reconciler
\* variant: every name is bound to the id of the container listed last
BuildIndex_LastID(listing) ==
    [n \in {c.Name : c \in listing} |->
        (CHOOSE c \in listing : \A d \in listing : d.ID <= c.ID).ID]

\* variant: only containers carrying the managed label are indexed
BuildIndex_ManagedOnly(listing) ==
    [n \in {c.Name : c \in {d \in listing : d.ID \notin foreign}} |->
        (CHOOSE c \in listing : c.Name = n).ID]

\* manager.go 43-49: index of the listed containers, name -> runtime id
BuildIndex(listing) ==
    [n \in {c.Name : c \in listing} |->
        (CHOOSE c \in listing : c.Name = n).ID]

\* variant: a failed listing is taken for an empty runtime
AfterListError_Ignored == [pc |-> "range", err |-> "nil"]

\* manager.go 38-41: a listing that fails ends the pass with the error
AfterListError == [pc |-> "return", err |-> "list-failed"]

\* manager.go 32-35: a document that cannot be read ends the pass
AfterLoadError == [pc |-> "return", err |-> "load-failed"]

\* variant: a config that cannot be loaded ends the pass
AfterConfigError_Aborts == "return"

\* manager.go 53-57: a config that cannot be loaded is warned about and skipped
AfterConfigError == "range"

\* manager.go 61-79: name not in the index
MissingPlan(desired) == IF desired = "running" THEN "CreateContainer" ELSE "range"

\* variant: a failed create ends the pass
AfterCreate_Aborts(created) == IF created THEN "StartNew" ELSE "return"

\* variant: the start is attempted whatever create returned
AfterCreate_AlwaysStarts(created) == "StartNew"

\* manager.go 69-76: start only what was created
AfterCreate(created) == IF created THEN "StartNew" ELSE "range"

\* manager.go 82-86: a status that cannot be fetched skips the entity
AfterStatusError == "range"

\* variant: the stop branch is missing
Reconcile_NeverStops(desired, status) ==
    IF desired = "running" /\ status # "running" THEN "StartExisting" ELSE "range"

\* variant: anything not wanted running is stopped
Reconcile_StopsUnlessRunning(desired, status) ==
    IF desired = "running" /\ status # "running" THEN "StartExisting"
    ELSE IF desired # "running" /\ status = "running" THEN "StopExisting"
    ELSE "range"

\* manager.go 89-99: name in the index, live status known
Reconcile(desired, status) ==
    IF desired = "running" /\ status # "running" THEN "StartExisting"
    ELSE IF desired = "stopped" /\ status = "running" THEN "StopExisting"
    ELSE "range"

\* manager.go 162-173: what SyncFromGit makes of the pass's return value
SyncOutcome(result, e) ==
    IF e # "nil" THEN [result EXCEPT !.Errors = Append(@, e)] ELSE result

\* variant: the pass's error is handed on to the caller
SyncError_Propagates(e) == e

\* manager.go 173: the error SyncFromGit returns
SyncError(e) == "nil"

\* ------------------------------------------------------------------ Init
\* Ids are interchangeable and so are Names: nothing in the program orders them.
\* Init takes one representative of every class of initial states, the one whose
\* document entries and whose container states are listed in non-decreasing
\* order; the configs, which tie ids to names, stay unconstrained.
Sorted(f, S) ==
    \A a, b \in DOMAIN f :
        a < b => \E x, y \in DOMAIN S : x <= y /\ S[x] = f[a] /\ S[y] = f[b]

\* the desired-state documents and the config directories a store may hold
Documents ==
    {[i \in Ids |-> IF ds[i] = "" THEN NoEntry ELSE ContainerState(ds[i])] :
        ds \in {d \in [Ids -> {"", "running", "stopped", "paused"}] :
                    Sorted(d, <<"", "running", "stopped", "paused">>)}}

ConfigDirs ==
    {[i \in Ids |-> IF nm[i] = 0 THEN NoConfig ELSE ContainerConfig(i, nm[i])] :
        nm \in [Ids -> Names \cup {0}]}

InitStore ==
    /\ desiredStateFile \in Documents
    /\ containerConfigs \in ConfigDirs

InitRuntime ==
    /\ \E st \in [Names -> {"absent", "running", "exited"}] :
          /\ Sorted(st, <<"absent", "running", "exited">>)
          /\ dockerContainers =
                [n \in Names |->
                    IF st[n] = "absent" THEN Absent
                    ELSE [id |-> n, state |-> st[n]]]
    /\ nextID = NumNames + 1

InitPass ==
    /\ pc = "idle"
    /\ trigger = "none"
    /\ desiredState = <<>>
    /\ existingContainers = <<>>
    /\ todo = {}
    /\ cur = NoCur
    /\ err = "nil"
    /\ syncResult = NilResult
    /\ syncErr = "nil"
    /\ calls = <<>>
    /\ visited = <<>>
    /\ failures = 0
    /\ afterPass = <<>>

\* no sync trigger is being served
InitNoTrigger ==
    /\ remote = FALSE
    /\ handler = "idle"
    /\ kind = "none"
    /\ pullErr = "unset"
    /\ response = "none"
    /\ payloadRef = "none"

\* no tracker call is in flight and the document file is well formed
InitNoCall ==
    /\ call = <<>>
    /\ fileTail = 0
    /\ lastWriter = 0

Projects == 1..NumProjects

\* no request has been served; the document has no stray or compose entries
InitNoRequest ==
    /\ byName = [n \in Names |-> NoEntry]
    /\ composeConfigs = [p \in Projects |-> FALSE]
    /\ composeStates = [p \in Projects |-> NoEntry]
    /\ last = NoRequest
    /\ cfgDesired = [i \in Ids |-> ""]
    /\ requests = 0

Keys == 1..NumKeys

\* content of a path that holds no file, and of a file that does not parse
NoFile == [nofile |-> TRUE]
Garbage == [garbage |-> TRUE]

NoOp == [op |-> "", key |-> 0, found |-> FALSE, out |-> "", cfg |-> <<>>]
NoListing == [pc |-> "idle", scanned |-> {}, todo |-> {}, out |-> {},
              err |-> "nil", edited |-> FALSE]

\* no loader call has been made on the directory under study
InitNoLoader ==
    /\ dirKind = "containers"
    /\ dirExists = FALSE
    /\ files = [k \in Keys |-> NoFile]
    /\ lastOp = NoOp
    /\ lastSave = <<>>
    /\ listCall = NoListing

NoBackup ==
    [pc |-> "idle", n |-> 0, before |-> [Backups |-> <<>>, Err |-> "nil"],
     ret |-> "",
     start |-> [archives |-> {}, volume |-> NoFile, commits |-> <<>>],
     stuck |-> {}, swept |-> FALSE]

\* no backup has run: the volume's backup directory does not exist yet
InitNoBackup ==
    /\ backupDir = FALSE
    /\ archives = {}
    /\ tmpFile = NoFile
    /\ worker = "none"
    /\ backup = NoBackup
    /\ volume = NoFile
    /\ commits = <<>>
    /\ zone = 0

NoVolumeRequest ==
    [op |-> "", key |-> 0, cfg |-> NoFile, pc |-> "idle", code |-> "",
     turn |-> FALSE]

\* no volume request has been made and the scheduler has no job
InitNoScheduler ==
    /\ volumeFiles = [k \in Keys |-> NoFile]
    /\ cron = [entries |-> <<>>, running |-> FALSE]
    /\ volReq = [p \in Procs |-> NoVolumeRequest]
    /\ volServed = 0
    /\ schedStarted = FALSE

\* one pass at a time
InitNoPeer == peer = <<>>

NoRepo == [remote |-> FALSE, tree |-> 0, head |-> 0, log |-> <<>>,
           contacted |-> FALSE, calls |-> 0, last |-> <<>>, before |-> <<>>]

\* no git call is under study
InitNoRepo == repo = NoRepo

\* who may ask for a backup: the cron tick and the manual trigger
Callers == {"cron", "manual"}

Stamps == 1..MaxBackups

NoJob == [pc |-> "idle", stamp |-> 0, ret |-> "", did |-> <<>>,
          worker |-> "none", ino |-> ""]

NoDisk == [tmp |-> "", arch |-> [t \in Stamps |-> ""],
           content |-> [c \in Callers |-> {}], lastBackup |-> 0,
           commits |-> <<>>, old |-> FALSE]

\* no backup call is followed step by step
InitNoSteps ==
    /\ job = [c \in Callers |-> NoJob]
    /\ disk = NoDisk
    /\ clock = 0

NoRestore == [pc |-> "idle", n |-> 0, file |-> NoFile, ret |-> "",
              worker |-> "none", launched |-> FALSE, seen |-> "",
              before |-> <<>>]

Live == [state |-> "live", from |-> NoFile]

\* no restore has been asked for
InitNoRestore ==
    /\ restore = NoRestore
    /\ data = Live

\* every container carries the label
InitNoForeign == foreign = {}

NoStop == [id |-> 0, pc |-> "none", containerID |-> 0, code |-> ""]

InitNoStop == stopReq = NoStop

InitNoLate == InitNoSteps /\ InitNoRestore /\ InitNoForeign /\ InitNoStop

InitNoMore == InitNoScheduler /\ InitNoPeer /\ InitNoRepo /\ InitNoLate

InitOutside ==
    /\ InitNoTrigger /\ InitNoCall /\ InitNoRequest /\ InitNoLoader
    /\ InitNoBackup /\ InitNoMore

Init == InitStore /\ InitRuntime /\ InitPass /\ passesLeft = 1 /\ InitOutside

InitTwice == InitStore /\ InitRuntime /\ InitPass /\ passesLeft = 2 /\ InitOutside

\* --------------------------------------------------------------- actions
Begin(trig, result) ==
    /\ pc = "idle"
    /\ passesLeft > 0
    /\ pc' = "LoadDesiredState"
    /\ trigger' = trig
    /\ syncResult' = result
    /\ syncErr' = "nil"
    /\ err' = "nil"
    /\ calls' = <<>>
    /\ visited' = <<>>
    /\ desiredState' = <<>>
    /\ existingContainers' = <<>>
    /\ todo' = {}
    /\ cur' = NoCur
    /\ UNCHANGED <<store, dockerContainers, nextID, failures, passesLeft, afterPass>>

\* main.go 53: the pass the process runs before it serves requests
RestoreOnStartup ==
    /\ afterPass = <<>>
    /\ Begin("startup", NilResult)
    /\ UNCHANGED outside

\* manager.go 162-163: a sync trigger, after its pull
SyncFromGit ==
    /\ Begin("sync", [NilResult EXCEPT !.Success = TRUE])
    /\ UNCHANGED outside

\* manager.go 32-35
LoadDesiredStateStep ==
    /\ pc = "LoadDesiredState"
    /\ \E ok \in Outcomes :
          /\ failures' = Failed(ok)
          /\ calls' = Append(calls, Call("load", ok, ""))
          /\ IF ok
             THEN /\ desiredState' = LoadDesiredState(desiredStateFile)
                  /\ pc' = "ListContainers"
                  /\ err' = err
             ELSE /\ desiredState' = desiredState
                  /\ pc' = AfterLoadError.pc
                  /\ err' = AfterLoadError.err
    /\ UNCHANGED <<store, dockerContainers, nextID, trigger, existingContainers,
                   todo, cur, syncResult, syncErr, visited, passesLeft, afterPass, outside>>

\* manager.go 38-49
ListContainersStep ==
    /\ pc = "ListContainers"
    /\ \E ok \in Outcomes :
          /\ failures' = Failed(ok)
          /\ calls' = Append(calls, Call("list", ok, ""))
          /\ IF ok
             THEN /\ existingContainers' = BuildIndex(ListContainers(dockerContainers))
                  /\ pc' = "range"
                  /\ err' = err
             ELSE /\ existingContainers' = existingContainers
                  /\ pc' = AfterListError.pc
                  /\ err' = AfterListError.err
    /\ todo' = DOMAIN desiredState
    /\ UNCHANGED <<store, dockerContainers, nextID, trigger, desiredState, cur,
                   syncResult, syncErr, visited, passesLeft, afterPass, outside>>

\* manager.go 52-61, 78: one iteration of the range loop up to its first runtime call
RangeEntry ==
    /\ pc = "range"
    /\ \E id \in todo :
          LET cfg == LoadContainerConfig(containerConfigs, id) IN
          /\ todo' = todo \ {id}
          /\ visited' = Append(visited, id)
          /\ IF cfg = NoConfig
             THEN /\ pc' = AfterConfigError
                  /\ cur' = NoCur
             ELSE IF cfg.Name \notin DOMAIN existingContainers
             THEN /\ pc' = MissingPlan(desiredState[id].desired_state)
                  /\ cur' = [id |-> id, name |-> cfg.Name, rid |-> 0]
             ELSE /\ pc' = "GetContainerStatus"
                  /\ cur' = [id |-> id, name |-> cfg.Name,
                             rid |-> existingContainers[cfg.Name]]
    /\ UNCHANGED <<store, dockerContainers, nextID, trigger, desiredState,
                   existingContainers, err, syncResult, syncErr, calls, failures,
                   passesLeft, afterPass, outside>>

\* manager.go 100-102: the loop is over
RangeDone ==
    /\ pc = "range"
    /\ todo = {}
    /\ pc' = "return"
    /\ UNCHANGED <<store, dockerContainers, nextID, trigger, locals, err,
                   syncResult, syncErr, calls, visited, failures, passesLeft, afterPass, outside>>

\* manager.go 69-73
CreateContainerStep ==
    /\ pc = "CreateContainer"
    /\ \E ok \in Outcomes :
          LET created == ok /\ CanCreate(dockerContainers, cur.name) IN
          /\ failures' = Failed(ok)
          /\ calls' = Append(calls, Call("create", created, ""))
          /\ pc' = AfterCreate(created)
          /\ IF created
             THEN /\ dockerContainers' = CreateContainer(dockerContainers, cur.name, nextID)
                  /\ nextID' = nextID + 1
                  /\ cur' = [cur EXCEPT !.rid = nextID]
             ELSE UNCHANGED <<dockerContainers, nextID, cur>>
    /\ UNCHANGED <<store, trigger, desiredState, existingContainers, todo, err,
                   syncResult, syncErr, visited, passesLeft, afterPass, outside>>

StartStep(at) ==
    /\ pc = at
    /\ \E ok \in Outcomes :
          LET started == ok /\ HasID(dockerContainers, cur.rid) IN
          /\ failures' = Failed(ok)
          /\ calls' = Append(calls, Call("start", started, ""))
          /\ dockerContainers' =
                IF started THEN StartContainer(dockerContainers, cur.rid)
                ELSE dockerContainers
    /\ pc' = "range"
    /\ UNCHANGED <<store, nextID, trigger, locals, err, syncResult, syncErr,
                   visited, passesLeft, afterPass, outside>>

\* manager.go 74-76
StartNew == StartStep("StartNew")

\* manager.go 82-89, 94
GetContainerStatusStep ==
    /\ pc = "GetContainerStatus"
    /\ \E ok \in Outcomes :
          LET found == ok /\ HasID(dockerContainers, cur.rid)
              status == IF found THEN GetContainerStatus(dockerContainers, cur.rid)
                        ELSE ""
          IN
          /\ failures' = Failed(ok)
          /\ calls' = Append(calls, Call("status", found, status))
          /\ pc' = IF found
                   THEN Reconcile(desiredState[cur.id].desired_state, status)
                   ELSE AfterStatusError
    /\ UNCHANGED <<store, dockerContainers, nextID, trigger, locals, err,
                   syncResult, syncErr, visited, passesLeft, afterPass, outside>>

\* manager.go 90-93
StartExisting == StartStep("StartExisting")

\* variant: the pass records what it did in the document
StopExisting_RecordsState ==
    /\ pc = "StopExisting"
    /\ \E ok \in Outcomes :
          LET stopped == ok /\ HasID(dockerContainers, cur.rid) IN
          /\ failures' = Failed(ok)
          /\ calls' = Append(calls, Call("stop", stopped, ""))
          /\ dockerContainers' =
                IF stopped THEN StopContainer(dockerContainers, cur.rid)
                ELSE dockerContainers
    /\ pc' = "range"
    /\ desiredStateFile' =
          [desiredStateFile EXCEPT ![cur.id].last_known_state = "exited"]
    /\ UNCHANGED <<containerConfigs, nextID, trigger, locals, err, syncResult,
                   syncErr, visited, passesLeft, afterPass, outside>>

\* manager.go 95-98
StopExisting ==
    /\ pc = "StopExisting"
    /\ \E ok \in Outcomes :
          LET stopped == ok /\ HasID(dockerContainers, cur.rid) IN
          /\ failures' = Failed(ok)
          /\ calls' = Append(calls, Call("stop", stopped, ""))
          /\ dockerContainers' =
                IF stopped THEN StopContainer(dockerContainers, cur.rid)
                ELSE dockerContainers
    /\ pc' = "range"
    /\ UNCHANGED <<store, nextID, trigger, locals, err, syncResult, syncErr,
                   visited, passesLeft, afterPass, outside>>

\* manager.go 102 / 169-173 / main.go 53-55: the pass returns to its caller
Return ==
    /\ pc = "return"
    /\ pc' = "idle"
    /\ syncResult' = IF trigger = "sync" THEN SyncOutcome(syncResult, err)
                     ELSE syncResult
    /\ syncErr' = IF trigger = "sync" THEN SyncError(err) ELSE syncErr
    /\ passesLeft' = passesLeft - 1
    /\ afterPass' = Append(afterPass, dockerContainers)
    /\ UNCHANGED <<store, dockerContainers, nextID, trigger, locals, err,
                   calls, visited, failures, outside>>

Next ==
    \/ RestoreOnStartup
    \/ SyncFromGit
    \/ LoadDesiredStateStep
    \/ ListContainersStep
    \/ RangeEntry
    \/ RangeDone
    \/ CreateContainerStep
    \/ StartNew
    \/ GetContainerStatusStep
    \/ StartExisting
    \/ StopExisting
    \/ Return

Spec == Init /\ [][Next]_vars

SpecTwice == InitTwice /\ [][Next]_vars

\* ------------------------------------------------------ concurrent passes
\* Manager holds no lock (manager.go 14-28) and every sync trigger is served on
\* a goroutine of its own, so two passes may run side by side.  The pass taking
\* steps owns the pass variables; the other one waits in peer, together with
\* the runtime both started from.
FreshPass(rt) ==
    [pc |-> "idle", trigger |-> "none", desiredState |-> <<>>,
     existingContainers |-> <<>>, todo |-> {}, cur |-> NoCur, err |-> "nil",
     syncResult |-> NilResult, syncErr |-> "nil", calls |-> <<>>,
     visited |-> <<>>, passesLeft |-> 1, afterPass |-> <<>>, start |-> rt]

\* two sync triggers are about to be served, neither pass has begun
InitConcurrent ==
    /\ InitStore /\ InitRuntime /\ InitPass /\ passesLeft = 1
    /\ peer = FreshPass(dockerContainers)
    /\ InitNoTrigger /\ InitNoCall /\ InitNoRequest /\ InitNoLoader
    /\ InitNoBackup /\ InitNoScheduler /\ InitNoRepo /\ InitNoLate

\* the scheduler takes the running pass off between two of its steps and lets
\* the other one go on
Yield ==
    /\ peer' = [pc |-> pc, trigger |-> trigger, desiredState |-> desiredState,
                existingContainers |-> existingContainers, todo |-> todo,
                cur |-> cur, err |-> err, syncResult |-> syncResult,
                syncErr |-> syncErr, calls |-> calls, visited |-> visited,
                passesLeft |-> passesLeft, afterPass |-> afterPass,
                start |-> peer.start]
    /\ pc' = peer.pc
    /\ trigger' = peer.trigger
    /\ desiredState' = peer.desiredState
    /\ existingContainers' = peer.existingContainers
    /\ todo' = peer.todo
    /\ cur' = peer.cur
    /\ err' = peer.err
    /\ syncResult' = peer.syncResult
    /\ syncErr' = peer.syncErr
    /\ calls' = peer.calls
    /\ visited' = peer.visited
    /\ passesLeft' = peer.passesLeft
    /\ afterPass' = peer.afterPass
    /\ UNCHANGED <<store, dockerContainers, nextID, failures, exceptPeer>>

NextConcurrent ==
    \/ SyncFromGit
    \/ LoadDesiredStateStep
    \/ ListContainersStep
    \/ RangeEntry
    \/ RangeDone
    \/ CreateContainerStep
    \/ StartNew
    \/ GetContainerStatusStep
    \/ StartExisting
    \/ StopExisting
    \/ Return
    \/ Yield

SpecConcurrent == InitConcurrent /\ [][NextConcurrent]_vars

\* ----------------------------------------------------- foreign containers
\* A pass over a runtime in which some containers were made by someone else
\* and so lack the labels CreateContainer sets (handlers/containers.go
\* 967-968): all that were there at the start, or none.  ListContainers filters nothing (911-914) and the pass reads
\* status.State alone (manager.go 89-95).  No call fails here.
InitForeign ==
    /\ InitStore /\ InitRuntime
    /\ pc = "idle"
    /\ trigger = "none"
    /\ desiredState = <<>>
    /\ existingContainers = <<>>
    /\ todo = {}
    /\ cur = NoCur
    /\ err = "nil"
    /\ syncResult = NilResult
    /\ syncErr = "nil"
    /\ calls = <<>>
    /\ visited = <<>>
    /\ failures = MaxFailures
    /\ afterPass = <<>>
    /\ passesLeft = 1
    /\ InitNoTrigger /\ InitNoCall /\ InitNoRequest /\ InitNoLoader
    /\ InitNoBackup /\ InitNoScheduler /\ InitNoPeer /\ InitNoRepo
    /\ InitNoSteps /\ InitNoRestore /\ InitNoStop
    /\ foreign \in {{}, {dockerContainers[n].id : n \in Present(dockerContainers)}}

SpecForeign == InitForeign /\ [][Next]_vars

\* ========================================================= sync triggers
\* handlers/git.go Sync and handlers/webhook.go GitHub, GitLab, Generic: pull,
\* then SyncFromGit, then answer.  The pass these triggers start is the one of
\* the actions above; here the pull is the only call that fails, failures
\* inside a pass being the subject of Spec.
Payloads == {"invalid", "refs/heads/main", "refs/heads/master", "refs/heads/dev"}

\* variant: the two comparisons joined by "or", which no ref passes
Processed_Neither(ref) == ref = "refs/heads/main" /\ ref = "refs/heads/master"

\* webhook.go 44, 90: only pushes to main or master are processed
Processed(ref) == ref = "refs/heads/main" \/ ref = "refs/heads/master"

\* repository.go 125-142: what Pull may do
PullOutcomes ==
    IF remote THEN {"merged", "up-to-date", "failed"} ELSE {"no-remote"}

\* repository.go 126-128, 137-141: the error Pull returns
PullError(outcome) == IF outcome = "failed" THEN "failed" ELSE "nil"

\* variant: a failed pull is logged and the trigger goes on
AfterPullError_Continues == [handler |-> "SyncFromGit", response |-> "none"]

\* git.go 54-58, webhook.go 50-54, 96-99, 115-118: a failed pull ends the trigger
AfterPullError == [handler |-> "done", response |-> "PULL_FAILED"]

\* git.go 61-66: SyncFromGit's error, if any, becomes the answer
SyncResponse(e) == IF e # "nil" THEN "SYNC_FAILED" ELSE "success"

EmptyStore ==
    /\ desiredStateFile = [i \in Ids |-> NoEntry]
    /\ containerConfigs = [i \in Ids |-> NoConfig]

\* A repository with a remote starts as the fresh clone target, whose content
\* comes with the first merge; one without a remote holds a local store.
InitSync ==
    /\ remote \in BOOLEAN
    /\ IF remote THEN EmptyStore ELSE InitStore
    /\ InitRuntime
    /\ handler = "idle"
    /\ kind = "none"
    /\ pullErr = "unset"
    /\ response = "none"
    /\ payloadRef = "none"
    /\ pc = "idle"
    /\ trigger = "none"
    /\ desiredState = <<>>
    /\ existingContainers = <<>>
    /\ todo = {}
    /\ cur = NoCur
    /\ err = "nil"
    /\ syncResult = NilResult
    /\ syncErr = "nil"
    /\ calls = <<>>
    /\ visited = <<>>
    /\ failures = MaxFailures
    /\ afterPass = <<>>
    /\ passesLeft = 1
    /\ InitNoCall
    /\ InitNoRequest
    /\ InitNoLoader
    /\ InitNoBackup
    /\ InitNoMore

\* the call of Pull and the branch on its error, common to the four triggers
PullThenSync(k) ==
    /\ handler = "idle"
    /\ kind' = k
    /\ \E o \in PullOutcomes :
          /\ pullErr' = PullError(o)
          /\ IF o = "merged"
             THEN /\ desiredStateFile' \in Documents
                  /\ containerConfigs' \in ConfigDirs
             ELSE UNCHANGED store
          /\ IF PullError(o) # "nil"
             THEN /\ handler' = AfterPullError.handler
                  /\ response' = AfterPullError.response
             ELSE /\ handler' = "SyncFromGit"
                  /\ response' = "none"
    /\ UNCHANGED <<remote, runtime, passVars, exceptSync>>

\* the payload checks of a hosting service's webhook, then the pull
Webhook(k) ==
    /\ handler = "idle"
    /\ \E p \in Payloads :
          /\ payloadRef' = p
          /\ IF p = "invalid"
             THEN /\ handler' = "done"
                  /\ kind' = k
                  /\ response' = "INVALID_PAYLOAD"
                  /\ UNCHANGED <<store, remote, pullErr, runtime, passVars, exceptSync>>
             ELSE IF ~Processed(p)
             THEN /\ handler' = "done"
                  /\ kind' = k
                  /\ response' = "ignored"
                  /\ UNCHANGED <<store, remote, pullErr, runtime, passVars, exceptSync>>
             ELSE PullThenSync(k)

\* git.go 50-58
Sync == PullThenSync("Sync") /\ UNCHANGED payloadRef

\* webhook.go 30-54
GitHub == Webhook("GitHub")

\* webhook.go 69-99
GitLab == Webhook("GitLab")

\* webhook.go 110-118
Generic == PullThenSync("Generic") /\ UNCHANGED payloadRef

\* git.go 61, webhook.go 57, 101, 120: the trigger calls SyncFromGit
CallSyncFromGit ==
    /\ handler = "SyncFromGit"
    /\ Begin("sync", [NilResult EXCEPT !.Success = TRUE])
    /\ handler' = "reconciling"
    /\ UNCHANGED <<remote, kind, pullErr, response, payloadRef, exceptSync>>

\* git.go 62-68, webhook.go 58-65, 102-106, 121-125: the answer
Respond ==
    /\ handler = "reconciling"
    /\ pc = "idle"
    /\ handler' = "done"
    /\ response' = SyncResponse(syncErr)
    /\ UNCHANGED <<store, runtime, passVars, remote, kind, pullErr, payloadRef,
                   exceptSync>>

NextSync ==
    \/ Sync
    \/ GitHub
    \/ GitLab
    \/ Generic
    \/ CallSyncFromGit
    \/ LoadDesiredStateStep
    \/ ListContainersStep
    \/ RangeEntry
    \/ RangeDone
    \/ CreateContainerStep
    \/ StartNew
    \/ GetContainerStatusStep
    \/ StartExisting
    \/ StopExisting
    \/ Return
    \/ Respond

SpecSync == InitSync /\ [][NextSync]_vars

\* ========================================================= state tracker
\* Manager.UpdateContainerState and Manager.RemoveContainerState, as the API
\* handlers call them from concurrent requests: load the document, change the
\* map, save.  Nothing in Manager or Loader serializes the calls.  The save
\* ends in os.WriteFile, which opens the file truncating it and then writes
\* from offset 0, so the two halves are steps of their own.

\* manager.go 112-116: the map after desiredState.Containers[id] = ...
UpdateContainerState(doc, id, s) == [doc EXCEPT ![id] = ContainerState(s)]

\* variant: delete empties the whole map
RemoveContainerState_All(doc, id) == [i \in Ids |-> NoEntry]

\* manager.go 128: the map after delete(desiredState.Containers, id)
RemoveContainerState(doc, id) == [doc EXCEPT ![id] = NoEntry]

\* length of the marshalled document, in entries (the header is common to all)
DocSize(doc) == Cardinality({i \in Ids : doc[i] # NoEntry})

\* loader.go 276-303: read and parse; bytes after the document do not parse
Readable == fileTail = 0

InTheCall(p) == p \in DOMAIN call /\ call[p].pc \in {"loaded", "opened"}

Done(p) == p \in DOMAIN call /\ call[p].pc = "done"

InitTracker ==
    /\ desiredStateFile \in Documents
    /\ containerConfigs = [i \in Ids |-> NoConfig]
    /\ dockerContainers = [n \in Names |-> Absent]
    /\ nextID = NumNames + 1
    /\ InitPass
    /\ passesLeft = 0
    /\ InitOutside

\* manager.go 106-116, 122-128: the call is made, loads and changes its copy
Load(p) ==
    /\ p \notin DOMAIN call
    /\ \A q \in Procs : q < p => q \in DOMAIN call
    /\ \E op \in {"set", "remove"}, id \in Ids, s \in DesiredValues, ok \in Outcomes :
          LET read == ok /\ Readable
              doc == IF op = "set"
                     THEN UpdateContainerState(desiredStateFile, id, s)
                     ELSE RemoveContainerState(desiredStateFile, id)
          IN
          /\ op = "remove" => s = "stopped"
          /\ failures' = Failed(ok)
          /\ call' = [q \in DOMAIN call \cup {p} |->
                         IF q # p THEN call[q]
                         ELSE [op |-> op, id |-> id, state |-> s,
                               before |-> desiredStateFile,
                               doc |-> IF read THEN doc ELSE desiredStateFile,
                               pc |-> IF read THEN "loaded" ELSE "done",
                               ret |-> IF read THEN "" ELSE "error"]]
    /\ UNCHANGED <<store, fileTail, lastWriter, runtime, passLocal, exceptTracker>>

\* loader.go 318, os.WriteFile: the file is opened with O_TRUNC
OpenTruncate(p) ==
    /\ p \in DOMAIN call
    /\ call[p].pc = "loaded"
    /\ \E ok \in Outcomes :
          /\ failures' = Failed(ok)
          /\ IF ok
             THEN /\ desiredStateFile' = [i \in Ids |-> NoEntry]
                  /\ fileTail' = 0
                  /\ call' = [call EXCEPT ![p].pc = "opened"]
             ELSE /\ UNCHANGED <<desiredStateFile, fileTail>>
                  /\ call' = [call EXCEPT ![p].pc = "done", ![p].ret = "error"]
    /\ UNCHANGED <<containerConfigs, lastWriter, runtime, passLocal, exceptTracker>>

\* os.WriteFile: the marshalled document is written from offset 0; what the
\* file held beyond its length stays
Write(p) ==
    /\ p \in DOMAIN call
    /\ call[p].pc = "opened"
    /\ \E ok \in Outcomes :
          LET len == DocSize(desiredStateFile) + fileTail
              new == DocSize(call[p].doc)
          IN
          /\ failures' = Failed(ok)
          /\ IF ok
             THEN /\ desiredStateFile' = call[p].doc
                  /\ fileTail' = IF len > new THEN len - new ELSE 0
                  /\ lastWriter' = p
                  /\ call' = [call EXCEPT ![p].pc = "done", ![p].ret = "nil"]
             ELSE /\ UNCHANGED <<desiredStateFile, fileTail, lastWriter>>
                  /\ call' = [call EXCEPT ![p].pc = "done", ![p].ret = "error"]
    /\ UNCHANGED <<containerConfigs, runtime, passLocal, exceptTracker>>

\* a call made while no other call is in flight
SerialLoad(p) ==
    /\ \A q \in Procs : ~InTheCall(q)
    /\ Load(p)

NextTracker ==
    \/ \E p \in Procs : Load(p)
    \/ \E p \in Procs : OpenTruncate(p)
    \/ \E p \in Procs : Write(p)

NextSerial ==
    \/ \E p \in Procs : SerialLoad(p)
    \/ \E p \in Procs : OpenTruncate(p)
    \/ \E p \in Procs : Write(p)

\* the calls as concurrent requests make them
SpecTracker == InitTracker /\ [][NextTracker]_vars

\* the calls one after the other
SpecSerial == InitTracker /\ [][NextSerial]_vars

\* =========================================================== API handlers
\* The container and compose handlers, one request at a time.  A handler is one
\* step; f names the call of it that the environment lets fail, if any.
Points(S) == IF failures < MaxFailures THEN S \cup {"none"} ELSE {"none"}

\* Client.RemoveContainer(id, force)
RemoveContainer(rt, name) == [rt EXCEPT ![name] = Absent]

\* variant: the commit is made whatever the handler answers
CommitAndPush_Always(op, code) == TRUE

\* containers.go 207, 245, 280, 302, 324, logs.go 217-301: the handlers call
\* CommitAndPush as their last step before they answer success; Restart
\* (containers.go 330-345) has no such call
CommitAndPush(op, code) == code = "ok" /\ op # "Restart"

Answer(op, key, code) ==
    /\ last' = [op |-> op, key |-> key, code |-> code,
                commit |-> CommitAndPush(op, code)]
    /\ requests' = requests + 1

\* Client.RestartContainer: stopped or running, the container runs afterwards
RestartContainer(rt, rid) ==
    [rt EXCEPT ![NameOfID(rt, rid)].state = "running"]

InitAPI ==
    /\ EmptyStore
    /\ InitRuntime
    /\ InitPass
    /\ passesLeft = 0
    /\ InitOutside

\* containers.go 151-213
Create ==
    /\ requests < MaxAPIRequests
    /\ \E id \in Ids, name \in Names, f \in Points({"create", "start", "save", "track"}) :
          LET created == f # "create" /\ CanCreate(dockerContainers, name)
              started == created /\ f # "start"
              saved == started /\ f # "save"
              tracked == saved /\ f # "track"
              rt == CreateContainer(dockerContainers, name, nextID)
          IN
          \* uuid.New(): an id no config and no entry has
          /\ containerConfigs[id] = NoConfig /\ desiredStateFile[id] = NoEntry
          /\ failures' = IF f = "none" THEN failures ELSE failures + 1
          /\ dockerContainers' = IF started THEN StartContainer(rt, nextID)
                                 ELSE IF created THEN rt ELSE dockerContainers
          /\ nextID' = IF created THEN nextID + 1 ELSE nextID
          /\ containerConfigs' =
                IF saved THEN [containerConfigs EXCEPT ![id] = ContainerConfig(id, name)]
                ELSE containerConfigs
          /\ cfgDesired' = IF saved THEN [cfgDesired EXCEPT ![id] = "running"]
                           ELSE cfgDesired
          /\ desiredStateFile' =
                IF tracked THEN UpdateContainerState(desiredStateFile, id, "running")
                ELSE desiredStateFile
          /\ Answer("Create", id,
                    IF ~created THEN "CREATE_FAILED"
                    ELSE IF ~started THEN "START_FAILED"
                    ELSE IF ~saved THEN "SAVE_FAILED" ELSE "ok")
    /\ UNCHANGED <<byName, composeConfigs, composeStates, passLocal, exceptAPI>>

\* containers.go 216-248
Update ==
    /\ requests < MaxAPIRequests
    /\ \E id \in Ids, ds \in DesiredValues \cup {"nil"}, f \in Points({"load", "track", "save"}) :
          LET found == f # "load" /\ LoadContainerConfig(containerConfigs, id) # NoConfig
              tracked == found /\ ds # "nil" /\ f # "track"
              saved == found /\ f # "save"
          IN
          /\ failures' = IF f = "none" THEN failures ELSE failures + 1
          /\ desiredStateFile' =
                IF tracked THEN UpdateContainerState(desiredStateFile, id, ds)
                ELSE desiredStateFile
          /\ cfgDesired' = IF saved /\ ds # "nil" THEN [cfgDesired EXCEPT ![id] = ds]
                           ELSE cfgDesired
          /\ Answer("Update", id,
                    IF ~found THEN "CONTAINER_NOT_FOUND"
                    ELSE IF ~saved THEN "SAVE_FAILED" ELSE "ok")
    /\ UNCHANGED <<containerConfigs, runtime, byName, composeConfigs, composeStates,
                   passLocal, exceptAPI>>

\* containers.go 251-283
Delete ==
    /\ requests < MaxAPIRequests
    /\ \E id \in Ids, f \in Points({"load", "list", "remove", "delete", "track"}) :
          LET cfg == LoadContainerConfig(containerConfigs, id)
              found == f # "load" /\ cfg # NoConfig
              removed == /\ found /\ f \notin {"list", "remove"}
                         /\ dockerContainers[cfg.Name] # Absent
              deleted == found /\ f # "delete"
              tracked == deleted /\ f # "track"
          IN
          /\ failures' = IF f = "none" THEN failures ELSE failures + 1
          /\ dockerContainers' =
                IF removed THEN RemoveContainer(dockerContainers, cfg.Name)
                ELSE dockerContainers
          /\ containerConfigs' =
                IF deleted THEN [containerConfigs EXCEPT ![id] = NoConfig]
                ELSE containerConfigs
          /\ cfgDesired' = IF deleted THEN [cfgDesired EXCEPT ![id] = ""]
                           ELSE cfgDesired
          /\ desiredStateFile' =
                IF tracked THEN RemoveContainerState(desiredStateFile, id)
                ELSE desiredStateFile
          /\ Answer("Delete", id,
                    IF ~found THEN "CONTAINER_NOT_FOUND"
                    ELSE IF ~deleted THEN "DELETE_FAILED" ELSE "ok")
    /\ UNCHANGED <<nextID, byName, composeConfigs, composeStates, passLocal, exceptAPI>>

\* containers.go 373-398 for a managed id: no container goes by that id, so
\* the config's name is looked up in the listing; 0 when that fails
ResolveContainerID(id, f) ==
    LET cfg == LoadContainerConfig(containerConfigs, id) IN
    IF f \in {"load", "list"} \/ cfg = NoConfig THEN 0
    ELSE dockerContainers[cfg.Name].id

\* variant: the document is updated whatever the runtime answered
Tracks_Always(done) == TRUE

\* containers.go 289-302, 311-324: UpdateContainerState is reached only past
\* both early returns
Tracks(done) == done

\* containers.go 286-327: Start and Stop, op being "Start" or "Stop"; the id of
\* the URL is a managed id or what the runtime knows a container by
StartStop(op, state) ==
    /\ requests < MaxAPIRequests
    /\ \/ \E id \in Ids, f \in Points({"load", "list", "runtime", "track"}) :
             LET rid == ResolveContainerID(id, f)
                 done == rid # 0 /\ f # "runtime"
                 tracked == Tracks(done) /\ f # "track"
             IN
             /\ failures' = IF f = "none" THEN failures ELSE failures + 1
             /\ dockerContainers' =
                   IF ~done THEN dockerContainers
                   ELSE IF op = "Start" THEN StartContainer(dockerContainers, rid)
                   ELSE StopContainer(dockerContainers, rid)
             /\ desiredStateFile' =
                   IF tracked THEN UpdateContainerState(desiredStateFile, id, state)
                   ELSE desiredStateFile
             /\ byName' = byName
             /\ Answer(op, id, IF rid = 0 THEN "CONTAINER_NOT_FOUND"
                               ELSE IF ~done THEN "FAILED" ELSE "ok")
       \/ \E n \in Names, f \in Points({"runtime", "track"}) :
             LET rid == dockerContainers[n].id
                 done == f # "runtime"
                 tracked == Tracks(done) /\ f # "track"
             IN
             \* GetContainer(id) succeeds: the id is returned as it came
             /\ dockerContainers[n] # Absent
             /\ failures' = IF f = "none" THEN failures ELSE failures + 1
             /\ dockerContainers' =
                   IF ~done THEN dockerContainers
                   ELSE IF op = "Start" THEN StartContainer(dockerContainers, rid)
                   ELSE StopContainer(dockerContainers, rid)
             /\ byName' = IF tracked THEN [byName EXCEPT ![n] = ContainerState(state)]
                          ELSE byName
             /\ desiredStateFile' = desiredStateFile
             /\ Answer(op, n, IF ~done THEN "FAILED" ELSE "ok")
    /\ UNCHANGED <<containerConfigs, nextID, composeConfigs, composeStates,
                   cfgDesired, passLocal, exceptAPI>>

\* containers.go 286-304
Start == StartStop("Start", "running")

\* containers.go 307-327
Stop == StartStop("Stop", "stopped")

\* containers.go 330-345: no call of the tracker and none of the repository
Restart ==
    /\ requests < MaxAPIRequests
    /\ \/ \E id \in Ids, f \in Points({"load", "list", "runtime"}) :
             LET rid == ResolveContainerID(id, f)
                 done == rid # 0 /\ f # "runtime"
             IN
             /\ failures' = IF f = "none" THEN failures ELSE failures + 1
             /\ dockerContainers' =
                   IF done THEN RestartContainer(dockerContainers, rid)
                   ELSE dockerContainers
             /\ Answer("Restart", id, IF rid = 0 THEN "CONTAINER_NOT_FOUND"
                                      ELSE IF ~done THEN "FAILED" ELSE "ok")
       \/ \E n \in Names, f \in Points({"runtime"}) :
             /\ dockerContainers[n] # Absent
             /\ failures' = IF f = "none" THEN failures ELSE failures + 1
             /\ dockerContainers' =
                   IF f = "none"
                   THEN RestartContainer(dockerContainers, dockerContainers[n].id)
                   ELSE dockerContainers
             /\ Answer("Restart", n, IF f # "none" THEN "FAILED" ELSE "ok")
    /\ UNCHANGED <<store, nextID, byName, composeConfigs, composeStates,
                   cfgDesired, passLocal, exceptAPI>>

\* logs.go 187-220
ComposeCreate ==
    /\ requests < MaxAPIRequests
    /\ \E p \in Projects, f \in Points({"save", "savefile"}) :
          /\ failures' = IF f = "none" THEN failures ELSE failures + 1
          /\ composeConfigs' = IF f # "save" THEN [composeConfigs EXCEPT ![p] = TRUE]
                               ELSE composeConfigs
          /\ Answer("ComposeCreate", p,
                    IF f = "save" THEN "SAVE_FAILED"
                    ELSE IF f = "savefile" THEN "SAVE_COMPOSE_FAILED" ELSE "ok")
    /\ UNCHANGED <<store, runtime, byName, cfgDesired, composeStates, passLocal, exceptAPI>>

\* logs.go 223-260
ComposeUpdate ==
    /\ requests < MaxAPIRequests
    /\ \E p \in Projects, ds \in DesiredValues \cup {"nil"}, f \in Points({"load", "track", "save"}) :
          LET found == f # "load" /\ composeConfigs[p]
              tracked == found /\ ds # "nil" /\ f # "track"
          IN
          /\ failures' = IF f = "none" THEN failures ELSE failures + 1
          /\ composeStates' = IF tracked THEN [composeStates EXCEPT ![p] = ContainerState(ds)]
                              ELSE composeStates
          /\ Answer("ComposeUpdate", p,
                    IF ~found THEN "PROJECT_NOT_FOUND"
                    ELSE IF f = "save" THEN "SAVE_FAILED" ELSE "ok")
    /\ UNCHANGED <<store, runtime, byName, cfgDesired, composeConfigs, passLocal, exceptAPI>>

\* logs.go 263-278
ComposeDelete ==
    /\ requests < MaxAPIRequests
    /\ \E p \in Projects, f \in Points({"delete", "track"}) :
          /\ failures' = IF f = "none" THEN failures ELSE failures + 1
          /\ composeConfigs' = IF f # "delete" THEN [composeConfigs EXCEPT ![p] = FALSE]
                               ELSE composeConfigs
          /\ composeStates' = IF f = "none" THEN [composeStates EXCEPT ![p] = NoEntry]
                              ELSE composeStates
          /\ Answer("ComposeDelete", p, IF f = "delete" THEN "DELETE_FAILED" ELSE "ok")
    /\ UNCHANGED <<store, runtime, byName, cfgDesired, passLocal, exceptAPI>>

\* logs.go 281-306: Up and Down set the state of whatever project is named
UpDown(op, state) ==
    /\ requests < MaxAPIRequests
    /\ \E p \in Projects, f \in Points({"track"}) :
          /\ failures' = IF f = "none" THEN failures ELSE failures + 1
          /\ composeStates' = IF f = "none" THEN [composeStates EXCEPT ![p] = ContainerState(state)]
                              ELSE composeStates
          /\ Answer(op, p, "ok")
    /\ UNCHANGED <<store, runtime, byName, cfgDesired, composeConfigs, passLocal, exceptAPI>>

\* logs.go 281-292
Up == UpDown("Up", "running")

\* logs.go 295-306
Down == UpDown("Down", "stopped")

NextAPI ==
    \/ Create
    \/ Update
    \/ Delete
    \/ Start
    \/ Stop
    \/ Restart
    \/ ComposeCreate
    \/ ComposeUpdate
    \/ ComposeDelete
    \/ Up
    \/ Down

SpecAPI == InitAPI /\ [][NextAPI]_vars

(***************************************************************************)
(* A container Stop request served while a pass runs.  The handler and the *)
(* pass are goroutines over the same runtime and the same document, with   *)
(* no lock between them, so each call of the handler is a step of its own. *)
(***************************************************************************)

exceptStop == <<early, stepVars, restoreVars, foreignVars>>

InitStopRace ==
    /\ InitStore /\ InitRuntime
    /\ pc = "idle"
    /\ trigger = "none"
    /\ desiredState = <<>>
    /\ existingContainers = <<>>
    /\ todo = {}
    /\ cur = NoCur
    /\ err = "nil"
    /\ syncResult = NilResult
    /\ syncErr = "nil"
    /\ calls = <<>>
    /\ visited = <<>>
    /\ failures = MaxFailures
    /\ afterPass = <<>>
    /\ passesLeft = 1
    /\ InitNoTrigger /\ InitNoCall /\ InitNoRequest /\ InitNoLoader
    /\ InitNoBackup /\ InitNoScheduler /\ InitNoPeer /\ InitNoRepo
    /\ InitNoSteps /\ InitNoRestore /\ InitNoForeign
    /\ \E id \in Ids :
          stopReq = [id |-> id, pc |-> "resolveContainerID", containerID |-> 0,
                     code |-> ""]

\* containers.go 311-315
StopResolve ==
    /\ stopReq.pc = "resolveContainerID"
    /\ LET rid == ResolveContainerID(stopReq.id, "none") IN
       stopReq' = IF rid = 0
                  THEN [stopReq EXCEPT !.pc = "done", !.code = "CONTAINER_NOT_FOUND"]
                  ELSE [stopReq EXCEPT !.pc = "StopContainer", !.containerID = rid]
    /\ UNCHANGED <<store, runtime, passVars, exceptStop>>

\* containers.go 317-320, the runtime accepting the call
StopRuntime ==
    /\ stopReq.pc = "StopContainer"
    /\ dockerContainers' = StopContainer(dockerContainers, stopReq.containerID)
    /\ stopReq' = [stopReq EXCEPT !.pc = "UpdateContainerState"]
    /\ UNCHANGED <<store, nextID, passVars, exceptStop>>

\* containers.go 323-326
StopTrack ==
    /\ stopReq.pc = "UpdateContainerState"
    /\ desiredStateFile' =
          UpdateContainerState(desiredStateFile, stopReq.id, "stopped")
    /\ stopReq' = [stopReq EXCEPT !.pc = "done", !.code = "ok"]
    /\ UNCHANGED <<containerConfigs, runtime, passVars, exceptStop>>

NextStopRace ==
    \/ Next
    \/ StopResolve
    \/ StopRuntime
    \/ StopTrack

SpecStopRace == InitStopRace /\ [][NextStopRace]_vars

\* ========================================================== config store
\* Loader's save, load, delete and list of one kind of entity config.  The
\* three kinds live in directories of their own (containers/<id>.yaml,
\* volumes/<name>.yaml, compose/<project>/config.yaml), so one directory is
\* followed at a time, and one loader call at a time: what changes the files
\* while a list is under way, a pull or another request, is ExternalEdit.
Kinds == {"containers", "volumes", "compose"}

OptValues == {"", "always"}

\* a config as far as the round trip goes: its key (ID, Name or ProjectName)
\* and one omitempty field (config.restart, driver, env_file)
Config(k, v) == [Key |-> k, Opt |-> v]

\* variant: the omitempty field is never written
Marshal_DropsOpt(cfg) == [f \in {"key"} |-> cfg.Key]

\* yaml.Marshal: a mapping of the tagged fields; an omitempty field that holds
\* its zero value is left out
Marshal(cfg) ==
    [f \in (IF cfg.Opt = "" THEN {"key"} ELSE {"key", "opt"}) |->
        IF f = "key" THEN cfg.Key ELSE cfg.Opt]

Parsable(text) == text # NoFile /\ text # Garbage

\* yaml.Unmarshal into a zero struct: a field the mapping lacks keeps its zero
Unmarshal(text) ==
    [Key |-> IF "key" \in DOMAIN text THEN text["key"] ELSE 0,
     Opt |-> IF "opt" \in DOMAIN text THEN text["opt"] ELSE ""]

\* variant: a document that cannot be loaded ends the list with the error
AfterReadError_Aborts == [pc |-> "done", err |-> "read-failed"]

\* loader.go 76-79, 138-141, 219-222: the entry is skipped
AfterReadError == [pc |-> "read", err |-> "nil"]

\* a call or an edit made while a list is between its scan and its return
Disturbed == [listCall EXCEPT !.edited = (@ \/ listCall.pc = "read")]

InitLoader ==
    /\ dirKind \in Kinds
    /\ dirExists \in BOOLEAN
    /\ files = [k \in Keys |-> NoFile]
    /\ lastOp = NoOp
    /\ lastSave = <<>>
    /\ listCall = NoListing
    /\ EmptyStore
    /\ dockerContainers = [n \in Names |-> Absent]
    /\ nextID = NumNames + 1
    /\ InitPass
    /\ passesLeft = 0
    /\ InitNoTrigger /\ InitNoCall /\ InitNoRequest /\ InitNoBackup
    /\ InitNoMore

\* loader.go 40-49, 100-110, 164-177: only SaveComposeProject makes the directory
SaveConfig ==
    /\ listCall.pc # "read"
    /\ \E k \in Keys, v \in OptValues :
          LET cfg == Config(k, v)
              ok == dirExists \/ dirKind = "compose"
          IN
          /\ files' = IF ok THEN [files EXCEPT ![k] = Marshal(cfg)] ELSE files
          /\ dirExists' = ok
          /\ lastSave' = IF ok THEN cfg ELSE <<>>
          /\ lastOp' = [op |-> "save", key |-> k, found |-> files[k] # NoFile,
                        out |-> IF ok THEN "ok" ELSE "IOError", cfg |-> cfg]
    /\ UNCHANGED <<dirKind, listCall, store, runtime, passVars, exceptLoader>>

\* loader.go 24-37, 86-98, 148-161
LoadConfig ==
    /\ listCall.pc # "read"
    /\ \E k \in Keys :
          lastOp' = [op |-> "load", key |-> k, found |-> files[k] # NoFile,
                     out |-> IF files[k] = NoFile THEN "NotFound"
                             ELSE IF files[k] = Garbage THEN "ParseError" ELSE "ok",
                     cfg |-> IF Parsable(files[k]) THEN Unmarshal(files[k]) ELSE <<>>]
    /\ UNCHANGED <<dirKind, dirExists, files, lastSave, listCall, store, runtime,
                   passVars, exceptLoader>>

\* loader.go 52-55, 113-117 (os.Remove) and 196-199 (os.RemoveAll)
DeleteConfig ==
    /\ listCall.pc # "read"
    /\ \E k \in Keys :
          /\ files' = [files EXCEPT ![k] = NoFile]
          /\ lastOp' = [op |-> "delete", key |-> k, found |-> files[k] # NoFile,
                        out |-> IF files[k] = NoFile /\ dirKind # "compose"
                                THEN "NotFound" ELSE "ok",
                        cfg |-> <<>>]
    /\ lastSave' = <<>>
    /\ UNCHANGED <<dirKind, dirExists, listCall, store, runtime, passVars, exceptLoader>>

\* a file of the directory is rewritten, damaged or removed from outside
ExternalEdit ==
    /\ dirExists
    /\ \E k \in Keys :
       \E text \in {NoFile, Garbage} \cup {Marshal(Config(k, v)) : v \in OptValues} :
          /\ files[k] # text
          /\ files' = [files EXCEPT ![k] = text]
    /\ lastSave' = <<>>
    /\ lastOp' = NoOp
    /\ listCall' = Disturbed
    /\ UNCHANGED <<dirKind, dirExists, store, runtime, passVars, exceptLoader>>

\* loader.go 58-68, 120-130, 202-212: the directory is scanned; a missing
\* directory is an empty list
ListDir ==
    /\ listCall.pc \in {"idle", "done"}
    /\ LET scanned == IF dirExists THEN {k \in Keys : files[k] # NoFile} ELSE {} IN
       listCall' = [pc |-> IF dirExists THEN "read" ELSE "done", scanned |-> scanned,
                   todo |-> scanned, out |-> {}, err |-> "nil", edited |-> FALSE]
    /\ UNCHANGED <<dirKind, dirExists, files, lastOp, lastSave, store, runtime,
                   passVars, exceptLoader>>

\* loader.go 70-80, 132-142, 213-223: the next entry, in name order, is loaded
ListRead ==
    /\ listCall.pc = "read"
    /\ listCall.todo # {}
    /\ LET k == CHOOSE x \in listCall.todo : \A y \in listCall.todo : x <= y IN
       IF Parsable(files[k])
       THEN listCall' = [listCall EXCEPT !.todo = @ \ {k},
                                       !.out = @ \cup {Unmarshal(files[k])}]
       ELSE listCall' = [listCall EXCEPT !.todo = @ \ {k},
                                       !.pc = AfterReadError.pc,
                                       !.err = AfterReadError.err]
    /\ UNCHANGED <<dirKind, dirExists, files, lastOp, lastSave, store, runtime,
                   passVars, exceptLoader>>

\* loader.go 82, 144, 225
ListReturn ==
    /\ listCall.pc = "read"
    /\ listCall.todo = {}
    /\ listCall' = [listCall EXCEPT !.pc = "done"]
    /\ lastOp' = [op |-> "list", key |-> 0, found |-> dirExists, out |-> "ok", cfg |-> <<>>]
    /\ UNCHANGED <<dirKind, dirExists, files, lastSave, store, runtime,
                   passVars, exceptLoader>>

NextLoader ==
    \/ SaveConfig
    \/ LoadConfig
    \/ DeleteConfig
    \/ ExternalEdit
    \/ ListDir
    \/ ListRead
    \/ ListReturn

SpecLoader == InitLoader /\ [][NextLoader]_vars

\* ================================================================ backups
\* Scheduler.BackupVolume for one volume, one call at a time as cron and the
\* API make them, with the worker container as a process of its own: tar
\* writes /backup/backup.tar.gz, and /backup is the volume's backup directory
\* itself.  Time is counted in days: the n-th call is made on day n, so its
\* time.Now() is n, and the files found at the start are older than day 0.
DefaultRetentionDays == 30

Zones == {0, 1}
RetentionValues == {-1, 0, 5, 30}
ConfigOutcomes == {"saved", "load-failed", "save-failed", "save-emptied"}
SweepOutcomes == {"swept", "config-unreadable", "dir-unreadable"}

\* containers.go 642: time.Now().Format("2006-01-02T15-04-05"), the local
\* wall clock written without its zone
Format(t) == t + zone

\* containers.go 644: <timestamp>.tar.gz
ArchiveName(stamp) == [Base |-> "stamp", T |-> stamp, Ext |-> ".tar.gz"]

\* containers.go 664: the name tar writes to
TmpName == [Base |-> "backup", T |-> 0, Ext |-> ".tar.gz"]

File(name, modTime, size) ==
    [Name |-> name, IsDir |-> FALSE, ModTime |-> modTime, Size |-> size]

\* models/network.go 55-60: the backup policy of a volume's config
VolumeConfig(enabled, schedule, days) ==
    [Enabled |-> enabled, Schedule |-> schedule, RetentionDays |-> days,
     LastBackup |-> <<>>]

\* what an empty volumes/<volume>.yaml parses to
ZeroVolume == VolumeConfig(FALSE, "", 0)

\* os.ReadDir of the backup directory
ReadDir == archives \cup (IF tmpFile = NoFile THEN {} ELSE {tmpFile})

\* containers.go 742-744, 775-777: directories and other suffixes are skipped
Listed(e) == ~e.IsDir /\ e.Name.Ext = ".tar.gz"

\* variant: the timestamp is always the one the name gives
Timestamp_NoFallback(e) == e.Name.T

\* containers.go 785-788: time.Parse of the whole name, read as UTC; the
\* modification time when the name is not <timestamp>.tar.gz
Timestamp(e) ==
    IF e.Name.Base = "stamp" /\ e.Name.Ext = ".tar.gz" THEN e.Name.T
    ELSE e.ModTime

\* containers.go 790-795
BackupInfo(e) ==
    [Timestamp |-> Timestamp(e), Filename |-> e.Name, SizeBytes |-> e.Size]

\* containers.go 799-801: later timestamps first
RECURSIVE SortDescending(_)
SortDescending(S) ==
    IF S = {} THEN <<>>
    ELSE LET first == CHOOSE x \in S : \A y \in S : y.Timestamp <= x.Timestamp
         IN  <<first>> \o SortDescending(S \ {first})

\* containers.go 763-804, for a directory that can be read or does not exist
ListBackups ==
    [Backups |-> IF backupDir
                 THEN SortDescending({BackupInfo(e) : e \in {d \in ReadDir : Listed(d)}})
                 ELSE <<>>,
     Err |-> "nil"]

\* variant: an unset retention is used as it is
RetentionDays_NoDefault(cfg) == cfg.RetentionDays

\* containers.go 728-731
RetentionDays(cfg) ==
    IF cfg.RetentionDays <= 0 THEN DefaultRetentionDays ELSE cfg.RetentionDays

\* containers.go 739, 751: ModTime().Before(now.AddDate(0, 0, -days))
Expired(e, now, days) == e.ModTime < now - days

\* variant: the first file that cannot be removed ends the retention
CleanupOldBackups_StopsOnError(dir, cfg, now, stuck) ==
    IF cfg = NoFile \/ stuck # {} THEN dir
    ELSE {e \in dir : ~(Listed(e) /\ Expired(e, now, RetentionDays(cfg)))}

\* containers.go 722-760 once the config is loaded and the directory read:
\* every expired archive is removed but those whose stat or removal fails
CleanupOldBackups(dir, cfg, now, stuck) ==
    IF cfg = NoFile THEN dir
    ELSE {e \in dir : ~(Listed(e) /\ Expired(e, now, RetentionDays(cfg)))
                        \/ e \in stuck}

\* containers.go 700: os.Rename replaces a file of the same name
Rename(dir, tmp, name) ==
    {e \in dir : e.Name # name} \cup {[tmp EXCEPT !.Name = name]}

\* variant: a failed rename is reported at the end of the call
AfterRenameError_Continues == [goon |-> TRUE, ret |-> "rename-failed"]

\* containers.go 700-702
AfterRenameError == [goon |-> FALSE, ret |-> "rename-failed"]

\* containers.go 705-709: LastBackup is set in the loaded config and saved;
\* neither error is looked at, and a failed write may leave the file empty
SaveLastBackup(cfg, stamp, outcome) ==
    CASE cfg = NoFile \/ outcome = "load-failed" -> cfg
      [] outcome = "saved" -> [cfg EXCEPT !.LastBackup = <<stamp>>]
      [] outcome = "save-failed" -> cfg
      [] OTHER -> ZeroVolume

\* the files a backup directory may hold at the start
Existing ==
    {File(ArchiveName(Format(m)), m, "complete") : m \in {-44, -19, -4}}

Strays ==
    {File([Base |-> "manual", T |-> 0, Ext |-> ".tar.gz"], -44, "complete"),
     File([Base |-> "notes", T |-> 0, Ext |-> ".txt"], -44, "complete"),
     [Name |-> [Base |-> "old", T |-> 0, Ext |-> ".tar.gz"], IsDir |-> TRUE,
      ModTime |-> -44, Size |-> "complete"]}

InitBackup ==
    /\ EmptyStore
    /\ dockerContainers = [n \in Names |-> Absent]
    /\ nextID = NumNames + 1
    /\ InitPass
    /\ passesLeft = 0
    /\ InitNoTrigger /\ InitNoCall /\ InitNoRequest /\ InitNoLoader
    /\ InitNoMore
    /\ zone \in Zones
    /\ backupDir \in BOOLEAN
    /\ archives \in (IF backupDir
                     THEN {{}, Existing, Existing \cup Strays}
                     ELSE {{}})
    /\ tmpFile = NoFile
    /\ worker = "none"
    /\ backup = NoBackup
    /\ volume \in {NoFile} \cup {VolumeConfig(TRUE, "0 2 * * *", d) : d \in RetentionValues}
    /\ commits = <<>>

\* containers.go 641-674: the call up to ContainerCreate
BackupVolume ==
    /\ backup.pc \in {"idle", "done"}
    /\ backup.n < MaxBackups
    /\ \E mkdir \in (IF backupDir THEN {TRUE} ELSE BOOLEAN), create \in BOOLEAN :
          /\ ~mkdir => create
          /\ backup' = [pc |-> IF mkdir /\ create THEN "ContainerStart" ELSE "done",
                        n |-> backup.n + 1, before |-> ListBackups,
                        ret |-> IF ~mkdir THEN "mkdir-failed"
                                ELSE IF ~create THEN "create-failed" ELSE "",
                        start |-> [archives |-> archives, volume |-> volume,
                                   commits |-> commits],
                        stuck |-> {}, swept |-> FALSE]
          /\ backupDir' = (backupDir \/ mkdir)
          /\ worker' = IF mkdir /\ create THEN "created" ELSE "none"
    /\ UNCHANGED <<archives, tmpFile, volume, commits, zone>>
    /\ UNCHANGED <<store, runtime, passVars, exceptBackup>>

\* containers.go 676-679
ContainerStart ==
    /\ backup.pc = "ContainerStart"
    /\ \E ok \in BOOLEAN :
          /\ backup' = [backup EXCEPT !.pc = IF ok THEN "ContainerWait" ELSE "done",
                                      !.ret = IF ok THEN "" ELSE "start-failed"]
          /\ worker' = IF ok THEN "running" ELSE "none"
    /\ UNCHANGED <<backupDir, archives, tmpFile, volume, commits, zone>>
    /\ UNCHANGED <<store, runtime, passVars, exceptBackup>>

\* the worker: tar creates its output file and fills it
WorkerWrite ==
    /\ worker = "running"
    /\ worker' = "writing"
    /\ tmpFile' = File(TmpName, backup.n, "partial")
    /\ UNCHANGED <<backupDir, archives, backup, volume, commits, zone>>
    /\ UNCHANGED <<store, runtime, passVars, exceptBackup>>

\* the worker: tar ends, with 0 once the archive is complete, with an error
\* code at any point before
WorkerExit ==
    /\ worker \in {"running", "writing"}
    /\ \E code \in {0, 1} :
          /\ code = 0 => worker = "writing"
          /\ worker' = IF code = 0 THEN "exited-0" ELSE "exited-1"
          /\ tmpFile' = IF code = 0 THEN [tmpFile EXCEPT !.Size = "complete"]
                        ELSE tmpFile
    /\ UNCHANGED <<backupDir, archives, backup, volume, commits, zone>>
    /\ UNCHANGED <<store, runtime, passVars, exceptBackup>>

\* containers.go 683-719: the wait returns, and the call runs to its end
ContainerWait ==
    /\ backup.pc = "ContainerWait"
    /\ \/ \* errCh: waiting failed, the worker is removed by force
          /\ worker \in {"running", "writing"}
          /\ backup' = [backup EXCEPT !.pc = "done", !.ret = "wait-failed"]
          /\ UNCHANGED <<archives, tmpFile, volume, commits>>
       \/ \* statusCh, non-zero
          /\ worker = "exited-1"
          /\ backup' = [backup EXCEPT !.pc = "done", !.ret = "exit-nonzero"]
          /\ UNCHANGED <<archives, tmpFile, volume, commits>>
       \/ \* statusCh, zero: rename, LastBackup, commit, retention
          /\ worker = "exited-0"
          /\ \E renamed \in BOOLEAN, outcome \in ConfigOutcomes,
                committed \in BOOLEAN, sweep \in SweepOutcomes :
                LET t == backup.n
                    after == IF renamed THEN [goon |-> TRUE, ret |-> "nil"]
                             ELSE AfterRenameError
                    dir == IF renamed
                           THEN Rename(archives, tmpFile, ArchiveName(Format(t)))
                           ELSE archives
                    cfg == IF after.goon
                           THEN SaveLastBackup(volume, Format(t), outcome)
                           ELSE volume
                    sweeps == after.goon /\ sweep = "swept" /\ cfg # NoFile
                IN  /\ ~renamed =>
                          outcome = "saved" /\ committed /\ sweep = "swept"
                    /\ \E stuck \in SUBSET {e \in dir : sweeps /\ Listed(e)
                            /\ Expired(e, t, RetentionDays(cfg))} :
                          /\ archives' = IF sweeps
                                         THEN CleanupOldBackups(dir, cfg, t, stuck)
                                         ELSE dir
                          /\ backup' = [backup EXCEPT !.pc = "done",
                                            !.ret = after.ret,
                                            !.stuck = stuck, !.swept = sweeps]
                    /\ tmpFile' = IF renamed THEN NoFile ELSE tmpFile
                    /\ volume' = cfg
                    /\ commits' = IF after.goon /\ committed
                                  THEN Append(commits, t) ELSE commits
    /\ worker' = "none"
    /\ UNCHANGED <<backupDir, zone, store, runtime, passVars, exceptBackup>>

NextBackup ==
    \/ BackupVolume
    \/ ContainerStart
    \/ WorkerWrite
    \/ WorkerExit
    \/ ContainerWait

SpecBackup == InitBackup /\ [][NextBackup]_vars

\* ------------------------------------------------- overlapping backups
\* BackupVolume step by step, for callers that may overlap: Scheduler has no
\* lock, cron runs every job on a goroutine of its own and so does the API
\* with every request.  All workers write /backup/backup.tar.gz of the same
\* directory.  A file is known by the caller whose worker created it, so that
\* a rename moves the file a worker still has open.  Each caller makes one
\* call; time is counted in seconds, the resolution of the timestamp.

\* variant: retention runs before the commit
SuccessPath_CleanupFirst == <<"Rename", "LastBackup", "Cleanup", "Commit", "done">>

\* containers.go 699-719: what follows once the worker is known to have
\* exited with 0
SuccessPath == <<"Rename", "LastBackup", "Commit", "Cleanup", "done">>

After(step) ==
    SuccessPath[(CHOOSE k \in DOMAIN SuccessPath : SuccessPath[k] = step) + 1]

Goes(c, step, event) ==
    [job EXCEPT ![c].pc = After(step),
                ![c].did = Append(@, event),
                ![c].ret = IF After(step) = "done" THEN "nil" ELSE ""]

Ends(c, events, ret) ==
    [job EXCEPT ![c].pc = "done", ![c].did = @ \o events, ![c].ret = ret,
                ![c].worker = IF @ = "none" THEN "none" ELSE "removed"]

InitSteps ==
    /\ EmptyStore
    /\ dockerContainers = [n \in Names |-> Absent]
    /\ nextID = NumNames + 1
    /\ InitPass
    /\ passesLeft = 0
    /\ InitNoTrigger /\ InitNoCall /\ InitNoRequest /\ InitNoLoader
    /\ InitNoBackup /\ InitNoScheduler /\ InitNoPeer /\ InitNoRepo
    /\ InitNoRestore /\ InitNoForeign /\ InitNoStop
    /\ job = [c \in Callers |-> NoJob]
    /\ \E old \in BOOLEAN : disk = [NoDisk EXCEPT !.old = old]
    /\ clock = 0

\* containers.go 641-674: timestamp, MkdirAll, ContainerCreate
BackupCall(c) ==
    /\ job[c].pc = "idle"
    /\ \E t \in {clock, clock + 1} \cap Stamps, mkdir \in BOOLEAN, create \in BOOLEAN :
          /\ ~mkdir => create
          /\ clock' = t
          /\ job' = [job EXCEPT ![c] =
                IF mkdir /\ create
                THEN [NoJob EXCEPT !.pc = "ContainerStart", !.stamp = Format(t),
                                   !.did = <<"create">>, !.worker = "created"]
                ELSE [NoJob EXCEPT !.pc = "done", !.stamp = Format(t),
                                   !.ret = IF mkdir THEN "create-failed"
                                           ELSE "mkdir-failed"]]
    /\ UNCHANGED <<disk, store, runtime, passVars, exceptSteps>>

\* containers.go 676-679
StartWorker(c) ==
    /\ job[c].pc = "ContainerStart"
    /\ \E ok \in BOOLEAN :
          job' = IF ok
                 THEN [job EXCEPT ![c].pc = "ContainerWait", ![c].worker = "running"]
                 ELSE Ends(c, <<"remove">>, "start-failed")
    /\ UNCHANGED <<disk, clock, store, runtime, passVars, exceptSteps>>

\* the worker: tar opens its output, creating it or cutting it to nothing
WorkerOpen(c) ==
    /\ job[c].worker = "running"
    /\ LET ino == IF disk.tmp = "" THEN c ELSE disk.tmp IN
       /\ disk' = [disk EXCEPT !.tmp = ino, !.content[ino] = {}]
       /\ job' = [job EXCEPT ![c].worker = "writing", ![c].ino = ino]
    /\ UNCHANGED <<clock, store, runtime, passVars, exceptSteps>>

\* the worker: tar ends, with 0 once it has written the archive into the file
\* it holds, with an error code at any point before
WorkerEnd(c) ==
    /\ job[c].worker \in {"running", "writing"}
    /\ \E code \in {0, 1} :
          /\ code = 0 => job[c].worker = "writing"
          /\ job' = [job EXCEPT ![c].worker = IF code = 0 THEN "exited-0"
                                              ELSE "exited-1"]
          /\ disk' = IF code = 0
                     THEN [disk EXCEPT !.content[job[c].ino] = @ \cup {c}]
                     ELSE disk
    /\ UNCHANGED <<clock, store, runtime, passVars, exceptSteps>>

\* containers.go 682-697: the wait returns and the worker is removed
WaitWorker(c) ==
    /\ job[c].pc = "ContainerWait"
    /\ \/ /\ job[c].worker \in {"running", "writing"}
          /\ job' = Ends(c, <<"wait-error", "remove">>, "wait-failed")
       \/ /\ job[c].worker = "exited-1"
          /\ job' = Ends(c, <<"exit-1", "remove">>, "exit-nonzero")
       \/ /\ job[c].worker = "exited-0"
          /\ job' = [job EXCEPT ![c].pc = SuccessPath[1],
                                ![c].did = @ \o <<"exit-0", "remove">>,
                                ![c].worker = "removed"]
    /\ UNCHANGED <<disk, clock, store, runtime, passVars, exceptSteps>>

\* containers.go 699-702: os.Rename of backup.tar.gz to <timestamp>.tar.gz
RenameArchive(c) ==
    /\ job[c].pc = "Rename"
    /\ \E ok \in BOOLEAN :
          IF ok /\ disk.tmp # ""
          THEN /\ disk' = [disk EXCEPT !.arch[job[c].stamp] = disk.tmp, !.tmp = ""]
               /\ job' = Goes(c, "Rename", "rename")
          ELSE /\ disk' = disk
               /\ job' = Ends(c, <<>>, "rename-failed")
    /\ UNCHANGED <<clock, store, runtime, passVars, exceptSteps>>

\* containers.go 704-709: neither the load error nor the save error ends the call
WriteLastBackup(c) ==
    /\ job[c].pc = "LastBackup"
    /\ \E outcome \in {"saved", "load-failed", "save-failed"} :
          disk' = IF outcome = "saved"
                  THEN [disk EXCEPT !.lastBackup = job[c].stamp] ELSE disk
    /\ job' = Goes(c, "LastBackup", "last_backup")
    /\ UNCHANGED <<clock, store, runtime, passVars, exceptSteps>>

\* containers.go 711-712: the result of CommitAndPush is dropped
CommitBackup(c) ==
    /\ job[c].pc = "Commit"
    /\ \E committed \in BOOLEAN :
          disk' = IF committed
                  THEN [disk EXCEPT !.commits = Append(@, job[c].stamp)] ELSE disk
    /\ job' = Goes(c, "Commit", "commit")
    /\ UNCHANGED <<clock, store, runtime, passVars, exceptSteps>>

\* containers.go 714-715: retention, which gives up when the config or the
\* directory cannot be read
CleanupBackups(c) ==
    /\ job[c].pc = "Cleanup"
    /\ \E swept \in BOOLEAN :
          disk' = [disk EXCEPT !.old = @ /\ ~swept]
    /\ job' = Goes(c, "Cleanup", "cleanup")
    /\ UNCHANGED <<clock, store, runtime, passVars, exceptSteps>>

NextOverlap ==
    \E c \in Callers :
        \/ BackupCall(c)
        \/ StartWorker(c)
        \/ WorkerOpen(c)
        \/ WorkerEnd(c)
        \/ WaitWorker(c)
        \/ RenameArchive(c)
        \/ WriteLastBackup(c)
        \/ CommitBackup(c)
        \/ CleanupBackups(c)

SpecOverlap == InitSteps /\ [][NextOverlap]_vars

\* ---------------------------------------------------------------- restore
\* RestoreVolume, one call at a time, with its worker as a process of its own:
\* sh -c "rm -rf /data/* && tar xzf /backup/<file> -C /data", the backup
\* directory being mounted read-only.

\* unnamed/part_000 245-249: the handler asks for <timestamp>.tar.gz, whatever
\* the timestamp of the URL is
Requested ==
    {e.Name : e \in {d \in Existing \cup Strays : d.Name.Ext = ".tar.gz"}}
        \cup {ArchiveName(1)}

\* containers.go 810: os.Stat of the path
Stat(name) ==
    IF backupDir /\ \E e \in archives : e.Name = name THEN "found" ELSE "not-exist"

\* variant: the path is not looked at
StatRefuses_Never(found) == FALSE

\* containers.go 810-812: only a path that does not exist ends the call
StatRefuses(found) == found = "not-exist"

\* tar can extract a complete regular file
Extractable(name) ==
    \E e \in archives : e.Name = name /\ ~e.IsDir /\ e.Size = "complete"

InitRestore ==
    /\ EmptyStore
    /\ dockerContainers = [n \in Names |-> Absent]
    /\ nextID = NumNames + 1
    /\ InitPass
    /\ passesLeft = 0
    /\ InitNoTrigger /\ InitNoCall /\ InitNoRequest /\ InitNoLoader
    /\ InitNoScheduler /\ InitNoPeer /\ InitNoRepo /\ InitNoSteps /\ InitNoForeign
    /\ InitNoStop
    /\ zone \in Zones
    /\ backupDir \in BOOLEAN
    /\ archives \in (IF backupDir
                     THEN {{}, Existing, Existing \cup Strays}
                     ELSE {{}})
    /\ tmpFile = NoFile
    /\ worker = "none"
    /\ backup = NoBackup
    /\ volume = NoFile
    /\ commits = <<>>
    /\ InitNoRestore

\* containers.go 807-828: Stat, then ContainerCreate
RestoreVolume ==
    /\ restore.pc \in {"idle", "done"}
    /\ restore.n < MaxBackups
    /\ \E name \in Requested, create \in BOOLEAN :
          LET refused == StatRefuses(Stat(name)) IN
          /\ refused => create
          /\ restore' = [pc |-> IF ~refused /\ create THEN "ContainerStart"
                                ELSE "done",
                         n |-> restore.n + 1, file |-> name,
                         ret |-> IF refused THEN "not-found"
                                 ELSE IF ~create THEN "create-failed" ELSE "",
                         worker |-> IF ~refused /\ create THEN "created" ELSE "none",
                         launched |-> FALSE, seen |-> "",
                         before |-> <<ListBackups, data>>]
    /\ UNCHANGED <<data, backupVars, store, runtime, passVars, exceptRestore>>

\* containers.go 831-834
RestoreStart ==
    /\ restore.pc = "ContainerStart"
    /\ \E ok \in BOOLEAN :
          restore' = IF ok
                     THEN [restore EXCEPT !.pc = "ContainerWait",
                                          !.worker = "running", !.launched = TRUE]
                     ELSE [restore EXCEPT !.pc = "done", !.worker = "removed",
                                          !.ret = "start-failed"]
    /\ UNCHANGED <<data, backupVars, store, runtime, passVars, exceptRestore>>

\* the worker: rm -rf /data/*
WorkerClear ==
    /\ restore.worker = "running"
    /\ restore' = [restore EXCEPT !.worker = "cleared"]
    /\ data' = [state |-> "empty", from |-> NoFile]
    /\ UNCHANGED <<backupVars, store, runtime, passVars, exceptRestore>>

\* the worker: tar xzf ends with 0 once the archive is extracted; rm or tar
\* may end the shell with an error code at any point
WorkerExtract ==
    /\ restore.worker \in {"running", "cleared"}
    /\ \E code \in {0, 1} :
          /\ code = 0 => restore.worker = "cleared" /\ Extractable(restore.file)
          /\ restore' = [restore EXCEPT !.worker = IF code = 0 THEN "exited-0"
                                                   ELSE "exited-1"]
          /\ data' = IF code = 0 THEN [state |-> "restored", from |-> restore.file]
                     ELSE data
    /\ UNCHANGED <<backupVars, store, runtime, passVars, exceptRestore>>

\* containers.go 837-848: what the call returns for what the wait delivered
WaitReturn(seen) ==
    CASE seen = "wait-error" -> "wait-failed"
      [] seen = "exited-1" -> "exit-nonzero"
      [] OTHER -> "nil"

\* containers.go 836-853: the wait returns and the worker is removed
RestoreWait ==
    /\ restore.pc = "ContainerWait"
    /\ \E seen \in {"wait-error", "exited-1", "exited-0"} :
          /\ seen = "wait-error" => restore.worker \in {"running", "cleared"}
          /\ seen # "wait-error" => restore.worker = seen
          /\ restore' = [restore EXCEPT !.pc = "done", !.worker = "removed",
                                        !.seen = seen, !.ret = WaitReturn(seen)]
    /\ UNCHANGED <<data, backupVars, store, runtime, passVars, exceptRestore>>

NextRestore ==
    \/ RestoreVolume
    \/ RestoreStart
    \/ WorkerClear
    \/ WorkerExtract
    \/ RestoreWait

SpecRestore == InitRestore /\ [][NextRestore]_vars

\* ============================================================= schedule
\* The cron of the backup scheduler and the volume handlers that refresh it.
\* Handlers run in goroutines of their own and Scheduler has no lock, so
\* RefreshSchedule is two steps: Stop with the new cron, then Start, which
\* reads s.cron again for every job it adds.
Schedules == {"", "0 2 * * *", "@daily", "every day"}

\* what cron's parser accepts of the schedules above
ValidSchedule(s) == s \in {"0 2 * * *", "@daily"}

\* the backup policies a request may carry
Policies ==
    {VolumeConfig(TRUE, s, DefaultRetentionDays) : s \in Schedules \ {"0 2 * * *"}}
        \cup {VolumeConfig(FALSE, "0 2 * * *", DefaultRetentionDays)}

\* the request carries no backup policy
NoPolicy == [nopolicy |-> TRUE]

\* part_000 138-142
DefaultPolicy == VolumeConfig(TRUE, "0 2 * * *", DefaultRetentionDays)

\* containers.go 600
Eligible(cfg) == cfg.Enabled /\ cfg.Schedule # ""

\* containers.go 615-628: AddFunc refuses a schedule it cannot parse, which
\* is logged
ScheduleBackup(entries, k, cfg) ==
    IF ValidSchedule(cfg.Schedule)
    THEN Append(entries, [Name |-> k, Schedule |-> cfg.Schedule])
    ELSE entries

\* containers.go 599-603, over the configs ListVolumeConfigs returned
RECURSIVE AddJobs(_, _, _)
AddJobs(entries, configs, k) ==
    IF k > NumKeys THEN entries
    ELSE AddJobs(IF configs[k] # NoFile /\ Eligible(configs[k])
                 THEN ScheduleBackup(entries, k, configs[k]) ELSE entries,
                 configs, k + 1)

\* containers.go 589-606: nothing is added or started when the listing fails
SchedulerStart(c, configs, listed) ==
    IF listed THEN [entries |-> AddJobs(c.entries, configs, 1), running |-> TRUE]
    ELSE c

\* containers.go 634-635: s.Stop(), s.cron = cron.New()
NewCron == [entries |-> <<>>, running |-> FALSE]

InitScheduler ==
    /\ EmptyStore
    /\ dockerContainers = [n \in Names |-> Absent]
    /\ nextID = NumNames + 1
    /\ InitPass
    /\ passesLeft = 0
    /\ InitNoTrigger /\ InitNoCall /\ InitNoRequest /\ InitNoLoader
    /\ InitNoBackup /\ InitNoPeer /\ InitNoRepo /\ InitNoLate
    /\ volumeFiles \in [Keys -> {NoFile, DefaultPolicy}]
    /\ cron = NewCron
    /\ volReq = [p \in Procs |-> NoVolumeRequest]
    /\ volServed = 0
    /\ schedStarted = FALSE

\* main.go 58-59: Start on the scheduler just made, before the router exists
StartOnBoot ==
    /\ ~schedStarted
    /\ schedStarted' = TRUE
    /\ \E listed \in BOOLEAN : cron' = SchedulerStart(cron, volumeFiles, listed)
    /\ UNCHANGED <<volumeFiles, volReq, volServed>>
    /\ UNCHANGED <<store, runtime, passVars, exceptScheduler>>

\* the handler has answered; turn tells one request of a goroutine from the next
Answered(code, turn) ==
    [op |-> "", key |-> 0, cfg |-> NoFile, pc |-> "done", code |-> code,
     turn |-> turn]

Accepts(p) ==
    /\ schedStarted
    /\ volReq[p].pc \in {"idle", "done"}
    /\ volServed < MaxRequests
    /\ volServed' = volServed + 1
    /\ schedStarted' = schedStarted

\* part_000 105-151: Create up to the Stop half of RefreshSchedule
VolumeCreate(p) ==
    /\ Accepts(p)
    /\ \E k \in Keys, policy \in Policies \cup {NoPolicy},
          outcome \in {"ok", "CREATE_FAILED", "SAVE_FAILED"} :
          LET cfg == IF policy = NoPolicy THEN DefaultPolicy ELSE policy
          IN  /\ volReq' = [volReq EXCEPT ![p] =
                    IF outcome = "ok"
                    THEN [op |-> "create", key |-> k, cfg |-> cfg,
                          pc |-> "Start", code |-> "", turn |-> ~@.turn]
                    ELSE Answered(outcome, ~@.turn)]
              /\ volumeFiles' = IF outcome = "ok"
                                THEN [volumeFiles EXCEPT ![k] = cfg]
                                ELSE volumeFiles
              /\ cron' = IF outcome = "ok" THEN NewCron ELSE cron
    /\ UNCHANGED <<store, runtime, passVars, exceptScheduler>>

\* part_000 164-184 (190-197 when the request has no backup policy): Update
\* up to the Stop half of RefreshSchedule
VolumeUpdate(p) ==
    /\ Accepts(p)
    /\ \E k \in Keys, policy \in Policies \cup {NoPolicy}, saved \in BOOLEAN :
          /\ policy # NoPolicy => saved
          /\ volumeFiles[k] = NoFile => (saved /\ policy = NoPolicy)
          /\ volReq' = [volReq EXCEPT ![p] =
                IF volumeFiles[k] = NoFile
                THEN Answered("VOLUME_NOT_FOUND", ~@.turn)
                ELSE IF policy # NoPolicy
                THEN [op |-> "update", key |-> k, cfg |-> policy,
                      pc |-> "Start", code |-> "", turn |-> ~@.turn]
                ELSE Answered(IF saved THEN "success" ELSE "SAVE_FAILED",
                              ~@.turn)]
          /\ cron' = IF volumeFiles[k] # NoFile /\ policy # NoPolicy
                     THEN NewCron ELSE cron
    /\ UNCHANGED volumeFiles
    /\ UNCHANGED <<store, runtime, passVars, exceptScheduler>>

\* containers.go 636 with part_000 153-160 and 190-197: the Start half of
\* RefreshSchedule and the rest of the handler that called it
RefreshStart(p) ==
    /\ volReq[p].pc = "Start"
    /\ \E listed \in BOOLEAN, saved \in BOOLEAN :
          /\ volReq[p].op = "create" => saved
          /\ cron' = SchedulerStart(cron, volumeFiles, listed)
          /\ volumeFiles' = IF volReq[p].op = "update" /\ saved
                            THEN [volumeFiles EXCEPT ![volReq[p].key] = volReq[p].cfg]
                            ELSE volumeFiles
          /\ volReq' = [volReq EXCEPT ![p] =
                Answered(IF saved THEN "success" ELSE "SAVE_FAILED", @.turn)]
    /\ UNCHANGED <<volServed, schedStarted>>
    /\ UNCHANGED <<store, runtime, passVars, exceptScheduler>>

\* part_000 201-217: neither error is returned and the schedule is left alone
VolumeDelete(p) ==
    /\ Accepts(p)
    /\ \E k \in Keys, deleted \in BOOLEAN :
          /\ volumeFiles[k] = NoFile => ~deleted
          /\ volReq' = [volReq EXCEPT ![p] = Answered("success", ~@.turn)]
          /\ volumeFiles' = IF deleted THEN [volumeFiles EXCEPT ![k] = NoFile]
                            ELSE volumeFiles
    /\ UNCHANGED cron
    /\ UNCHANGED <<store, runtime, passVars, exceptScheduler>>

NextScheduler ==
    \/ StartOnBoot
    \/ \E p \in Procs : VolumeCreate(p)
    \/ \E p \in Procs : VolumeUpdate(p)
    \/ \E p \in Procs : RefreshStart(p)
    \/ \E p \in Procs : VolumeDelete(p)

SpecScheduler == InitScheduler /\ [][NextScheduler]_vars

\* ================================================================== git
\* Repository.CommitChanges, Push and Pull on the data directory, one call at
\* a time, with the loader's writes into the directory between them.  The
\* working tree and the tree of HEAD are content numbers; staged content is
\* not kept apart, since only CommitChanges stages and it commits or fails in
\* the same call.
Contents == 0..NumKeys

\* the call made last and the one before it, with what they returned
GitCall(r, op, ret) ==
    [r EXCEPT !.last = <<op, ret>>, !.before = r.last, !.calls = @ + 1]

\* variant: the status check always finds something to commit
IsClean_Never(r) == FALSE

\* repository.go 80-87: worktree.Status() after everything has been staged
IsClean(r) == r.tree = r.head

\* repository.go 72-102
CommitChanges(r, outcome) ==
    IF outcome \in {"stage-failed", "status-failed"}
    THEN GitCall(r, "CommitChanges", outcome)
    ELSE IF IsClean(r) THEN GitCall(r, "CommitChanges", "nil")
    ELSE IF outcome = "commit-failed"
    THEN GitCall(r, "CommitChanges", outcome)
    ELSE GitCall([r EXCEPT !.head = r.tree, !.log = Append(@, r.tree)],
                 "CommitChanges", "nil")

\* repository.go 105-122: NoErrAlreadyUpToDate is success
Push(r, outcome) ==
    IF ~r.remote THEN GitCall(r, "Push", "nil")
    ELSE GitCall([r EXCEPT !.contacted = TRUE], "Push",
                 IF outcome = "failed" THEN "push-failed" ELSE "nil")

\* repository.go 125-142: a merge brings the remote's content into the tree
Pull(r, outcome, c) ==
    IF ~r.remote THEN GitCall(r, "Pull", "nil")
    ELSE IF outcome = "merged"
    THEN GitCall([r EXCEPT !.contacted = TRUE, !.tree = c, !.head = c,
                           !.log = Append(@, c)], "Pull", "nil")
    ELSE GitCall([r EXCEPT !.contacted = TRUE], "Pull",
                 IF outcome = "failed" THEN "pull-failed" ELSE "nil")

\* repository.go 25-69: a repository just opened or initialised
InitGit ==
    /\ EmptyStore
    /\ dockerContainers = [n \in Names |-> Absent]
    /\ nextID = NumNames + 1
    /\ InitPass
    /\ passesLeft = 0
    /\ InitNoTrigger /\ InitNoCall /\ InitNoRequest /\ InitNoLoader
    /\ InitNoBackup /\ InitNoScheduler /\ InitNoPeer /\ InitNoLate
    /\ \E origin \in BOOLEAN, c \in Contents, h \in Contents :
          repo = [NoRepo EXCEPT !.remote = origin, !.tree = c, !.head = h]

\* loader.go 40-49, 102-111, 306-319: a Save* or Delete* changes a file
WriteFile ==
    /\ \E c \in Contents \ {repo.tree} :
          repo' = [repo EXCEPT !.tree = c, !.last = <<"write", "nil">>,
                                !.before = repo.last]
    /\ UNCHANGED <<store, runtime, passVars, exceptGit>>

GitCommitChanges ==
    /\ repo.calls < MaxRequests
    /\ \E outcome \in {"ok", "stage-failed", "status-failed", "commit-failed"} :
          repo' = CommitChanges(repo, outcome)
    /\ UNCHANGED <<store, runtime, passVars, exceptGit>>

GitPush ==
    /\ repo.calls < MaxRequests
    /\ \E outcome \in {"pushed", "up-to-date", "failed"} :
          repo' = Push(repo, outcome)
    /\ UNCHANGED <<store, runtime, passVars, exceptGit>>

GitPull ==
    /\ repo.calls < MaxRequests
    /\ \E outcome \in {"merged", "up-to-date", "failed"}, c \in Contents :
          repo' = Pull(repo, outcome, c)
    /\ UNCHANGED <<store, runtime, passVars, exceptGit>>

NextGit ==
    \/ WriteFile
    \/ GitCommitChanges
    \/ GitPush
    \/ GitPull

SpecGit == InitGit /\ [][NextGit]_vars

\* ============================================================== claims
\* vocabulary shared by the properties below
PassDone == pc = "idle" /\ afterPass # <<>>

Entries == {i \in Ids : desiredStateFile[i] # NoEntry}

Managed == {i \in Entries : containerConfigs[i] # NoConfig}

Orphans == Entries \ Managed

NameOf(i) == containerConfigs[i].Name

Desired(i) == desiredStateFile[i].desired_state

DistinctNames == \A i, j \in Managed : i # j => NameOf(i) # NameOf(j)

ReferencedNames == {NameOf(i) : i \in Managed}

IsRunning(n) == dockerContainers[n].state = "running"

Commands == {"create", "start", "stop"}

CallsOf(i) == {k \in DOMAIN calls : calls[k].ent = i}

CommandsOf(i) == {k \in CallsOf(i) : calls[k].cmd \in Commands}

Issued(i, cmd) == \E k \in CallsOf(i) : calls[k].cmd = cmd

ListOK == \E k \in DOMAIN calls : calls[k].cmd = "list" /\ calls[k].ok

ListFailed == \E k \in DOMAIN calls : calls[k].cmd = "list" /\ ~calls[k].ok

LoadOK == \E k \in DOMAIN calls : calls[k].cmd = "load" /\ calls[k].ok

InIndex(i) == NameOf(i) \in DOMAIN existingContainers

EntityFailure ==
    \E k \in DOMAIN calls :
        /\ calls[k].cmd \in Commands \cup {"status"}
        /\ ~calls[k].ok

\* C1: after a pass that ran alone with no failure, over configs with pairwise
\* distinct names, every entry with a config that wants "running" has a running
\* container of its name, and every one that wants "stopped" has none running.
C1_Converged ==
    (PassDone /\ failures = 0 /\ DistinctNames) =>
        \A i \in Managed :
            /\ Desired(i) = "running" =>
                  /\ dockerContainers[NameOf(i)] # Absent
                  /\ IsRunning(NameOf(i))
            /\ Desired(i) = "stopped" => ~IsRunning(NameOf(i))

C1_Witness ==
    /\ PassDone /\ failures = 0 /\ DistinctNames
    /\ \E i, j \in Managed :
          /\ Desired(i) = "running" /\ Issued(i, "create") /\ Issued(i, "start")
          /\ Desired(j) = "stopped" /\ Issued(j, "stop")

\* C2: running the pass twice in succession leaves the runtime (which containers
\* exist and the status of each) as one pass left it.  Read with every call of
\* both passes succeeding, so that the second pass sees the same environment.
C2_Idempotent ==
    (pc = "idle" /\ Len(afterPass) = 2 /\ failures = 0) =>
        \A n \in Names : afterPass[2][n].state = afterPass[1][n].state

\* what the entry's desired state and the index call for, given the live status
\* the pass observed; used by C3
Served(i) ==
    IF ~InIndex(i)
    THEN Desired(i) = "running" =>
            /\ Issued(i, "create")
            /\ (\E k \in CallsOf(i) : calls[k].cmd = "create" /\ calls[k].ok)
                  => Issued(i, "start")
    ELSE \E k \in CallsOf(i) :
            /\ calls[k].cmd = "status"
            /\ calls[k].ok =>
                  /\ (calls[k].st = "running" /\ Desired(i) = "stopped")
                        => Issued(i, "stop")
                  /\ (calls[k].st # "running" /\ Desired(i) = "running")
                        => Issued(i, "start")

\* C3: once the listing succeeded, a failed create, start, stop or status call
\* for one entity keeps no other entry from getting the command its desired and
\* live state call for, and the pass returns no error.
C3_FailureIsolated ==
    (PassDone /\ ListOK) =>
        /\ err = "nil"
        /\ \A b \in Managed :
              (\E k \in DOMAIN calls : ~calls[k].ok /\ calls[k].ent # b) => Served(b)

C3_Witness ==
    /\ PassDone
    /\ \E a, b \in Managed :
          /\ a # b
          /\ \E k \in CallsOf(a), m \in CommandsOf(b) :
                /\ calls[k].cmd = "create" /\ ~calls[k].ok
                /\ k < m /\ calls[m].ok

\* C4: an entry whose config cannot be loaded is visited and skipped: no call is
\* issued for it, every other entry is still visited, and the pass returns no
\* error.
C4_OrphanSkipped ==
    (PassDone /\ ListOK) =>
        /\ \A o \in Orphans : CallsOf(o) = {}
        /\ {visited[k] : k \in DOMAIN visited} = Entries
        /\ \A k \in DOMAIN calls :
              calls[k].cmd \in Commands \cup {"status"} => calls[k].ent \in Managed
        /\ err = "nil"

C4_Witness ==
    /\ PassDone
    /\ \E o \in Orphans, b \in Managed :
          /\ \E k, m \in DOMAIN visited : visited[k] = o /\ visited[m] = b /\ k < m
          /\ CommandsOf(b) # {}

\* the commands the reconciliation table of an indexed entity allows
Expected(desired, status) ==
    IF status = "running" /\ desired = "stopped" THEN {"stop"}
    ELSE IF status # "running" /\ desired = "running" THEN {"start"}
    ELSE {}

\* C5: for an entity whose name is in the index and whose live status was
\* fetched, the pass issues exactly one stop when live=running and
\* desired=stopped, exactly one start when live#running and desired=running,
\* and no command otherwise (nor when the status could not be fetched).
C5_ExistingTable ==
    PassDone =>
        \A i \in Managed : \A k \in CallsOf(i) :
            calls[k].cmd = "status" =>
                LET want == IF calls[k].ok
                            THEN Expected(Desired(i), calls[k].st)
                            ELSE {}
                IN
                /\ InIndex(i)
                /\ {calls[m].cmd : m \in CommandsOf(i)} = want
                /\ Cardinality(CommandsOf(i)) = Cardinality(want)
                /\ \A m \in CommandsOf(i) : m > k

C5_Witness ==
    /\ PassDone
    /\ \E i, j \in Managed :
          /\ InIndex(i) /\ Issued(i, "stop")
          /\ InIndex(j) /\ Desired(j) = "paused"
          /\ \E k \in CallsOf(j) :
                calls[k].cmd = "status" /\ calls[k].ok /\ calls[k].st = "running"
          /\ CommandsOf(j) = {}

\* C6: for an entity whose name is not in the index: wanted running, the pass
\* issues create and, only if create succeeded, start right after it; a start
\* that fails leaves the created container in place, not running; not wanted
\* running, no call is issued.  No container the pass listed or created is
\* ever removed.
C6_MissingPath ==
    /\ \A k \in DOMAIN calls :
          (calls[k].cmd = "create" /\ calls[k].ok)
              => dockerContainers[calls[k].name] # Absent
    /\ \A n \in DOMAIN existingContainers :
          dockerContainers[n].id = existingContainers[n]
    /\ (PassDone /\ ListOK) =>
          \A i \in Managed :
              ~InIndex(i) =>
                  IF Desired(i) = "running"
                  THEN \E k \in CallsOf(i) :
                          /\ calls[k].cmd = "create"
                          /\ IF calls[k].ok
                             THEN /\ CallsOf(i) = {k, k + 1}
                                  /\ calls[k + 1].cmd = "start"
                                  /\ ~calls[k + 1].ok =>
                                        dockerContainers[NameOf(i)].state = "created"
                             ELSE CallsOf(i) = {k}
                  ELSE CallsOf(i) = {}

C6_Witness ==
    /\ PassDone
    /\ \E i \in Managed : \E k \in CallsOf(i) :
          /\ calls[k].cmd = "create" /\ calls[k].ok
          /\ calls[k + 1].cmd = "start" /\ ~calls[k + 1].ok
          /\ dockerContainers[NameOf(i)].state = "created"

\* C7: no step of a pass changes a container whose name is not the name of a
\* config that a document entry refers to.
C7_Frame ==
    [][\A n \in Names \ ReferencedNames :
          dockerContainers'[n] = dockerContainers[n]]_vars

C7_Witness ==
    /\ PassDone
    /\ \E n \in Names \ ReferencedNames : IsRunning(n)
    /\ \E i \in Managed : \E k \in CallsOf(i) : calls[k].cmd = "stop" /\ calls[k].ok

\* C8: a listing that fails makes the pass return an error without any create,
\* start or stop; with the document loaded and the listing done, the pass
\* returns no error whatever else fails.
C8_ListFatal ==
    PassDone =>
        /\ ListFailed =>
              /\ err # "nil"
              /\ \A k \in DOMAIN calls : calls[k].cmd \notin Commands
        /\ (LoadOK /\ ~ListFailed) => err = "nil"

C8_Witness ==
    /\ PassDone /\ ListFailed
    /\ \E i \in Managed :
          Desired(i) = "running" /\ dockerContainers[NameOf(i)] = Absent

\* C9: no step of a pass, started at startup or by a sync, writes or deletes a
\* container config or writes the desired-state document.
C9_StoreUntouched ==
    [][desiredStateFile' = desiredStateFile /\ containerConfigs' = containerConfigs]_vars

C9_Witness ==
    /\ PassDone /\ trigger = "sync"
    /\ \E k \in DOMAIN calls : calls[k].cmd = "stop" /\ calls[k].ok
    /\ \E k \in DOMAIN calls : calls[k].cmd = "create" /\ calls[k].ok

\* entities whose every call of the pass succeeded and that got a command
Reconciled == {i \in Managed : CommandsOf(i) # {} /\ \A k \in CallsOf(i) : calls[k].ok}

\* C10: when a sync's pass had a create, start, stop or status call fail, the
\* returned SyncResult lists that failure in Errors and names the entities that
\* were reconciled successfully.
C10_SyncReports ==
    (PassDone /\ trigger = "sync" /\ EntityFailure) =>
        /\ syncResult.Errors # <<>>
        /\ Reconciled \subseteq
              (syncResult.ContainersAdded \cup syncResult.ContainersUpdated)

\* a pass has begun
PassBegun == pc # "idle" \/ afterPass # <<>>

\* C11: in each of the four sync triggers the pull comes before the pass: the
\* pass begins only after Pull returned nil and nothing is pulled once it has
\* begun; a pull that fails is answered with an error and no pass ever runs;
\* without a remote the pull returns nil leaving the store as it was, and the
\* trigger goes on to the pass and answers with its result.
C11_PullThenPass ==
    /\ [](/\ PassBegun => pullErr = "nil"
          /\ pullErr = "failed" =>
                /\ ~PassBegun /\ calls = <<>>
                /\ handler = "done" /\ response = "PULL_FAILED"
          /\ (~remote /\ pullErr # "unset") =>
                /\ pullErr = "nil"
                /\ handler \in {"SyncFromGit", "reconciling", "done"}
                /\ handler = "done" => (PassDone /\ response = "success"))
    /\ [][/\ pullErr' # pullErr => (~PassBegun /\ ~PassBegun')
          /\ store' # store => (remote /\ pullErr = "unset" /\ pullErr' = "nil")
          /\ (PassBegun' /\ ~PassBegun) => (pullErr = "nil" /\ pullErr' = "nil")]_vars

C11_Witness ==
    /\ remote /\ pullErr = "nil"
    /\ handler = "done" /\ response = "success" /\ PassDone
    /\ \E k \in DOMAIN calls : calls[k].cmd = "create" /\ calls[k].ok

\* C12: SyncFromGit returns no error whatever the pass returned: a pass that
\* failed (document unreadable, runtime unreachable) shows only as an entry of
\* SyncResult.Errors, and Success stays true.
C12_NeverErrors ==
    (PassDone /\ trigger = "sync") =>
        /\ syncErr = "nil"
        /\ syncResult.Success
        /\ err # "nil" => \E k \in DOMAIN syncResult.Errors : syncResult.Errors[k] = err
        /\ (ListFailed \/ ~LoadOK) => syncResult.Errors # <<>>

C12_Witness ==
    /\ PassDone /\ trigger = "sync" /\ ListFailed
    /\ syncResult.Errors = <<"list-failed">>

\* C13: with the calls made one after the other, a call that returns nil has
\* left the document as it found it except for its id: UpdateContainerState
\* leaves entry id with desired_state = last_known_state = s,
\* RemoveContainerState leaves no entry id; every other entry is as before,
\* the file parses, and a remove of an absent id returns nil like any other.
C13_SerialFrame ==
    /\ [](\A p \in Procs : (Done(p) /\ failures = 0) => call[p].ret = "nil")
    /\ [][\A p \in Procs :
            (InTheCall(p) /\ Done(p)' /\ call'[p].ret = "nil") =>
                LET c == call[p] IN
                /\ Readable'
                /\ \A j \in Ids \ {c.id} : desiredStateFile'[j] = c.before[j]
                /\ c.op = "set" =>
                      /\ desiredStateFile'[c.id].desired_state = c.state
                      /\ desiredStateFile'[c.id].last_known_state = c.state
                /\ c.op = "remove" => desiredStateFile'[c.id] = NoEntry]_vars

C13_Witness ==
    \E p, q \in Procs :
        /\ Done(p) /\ call[p].ret = "nil" /\ call[p].op = "set"
        /\ \E j \in Ids \ {call[p].id} : call[p].before[j] # NoEntry
        /\ Done(q) /\ call[q].ret = "nil" /\ call[q].op = "remove"
        /\ call[q].before[call[q].id] = NoEntry
        /\ \E j \in Ids : call[q].before[j] # NoEntry

AllDone == \A p \in Procs : Done(p)

\* C14: once all concurrent calls have returned, none of them having met an
\* I/O failure, the file holds exactly the map the last writer saved and a
\* later load succeeds.
C14_LastWriterWins ==
    (AllDone /\ failures = 0) =>
        /\ Readable
        /\ lastWriter # 0 => desiredStateFile = call[lastWriter].doc

\* C15: after any sequence of completed API requests every key of the
\* desired-state document, container or compose project, has an entity config
\* in the store.
C15_KeysHaveConfigs ==
    /\ \A i \in Ids : desiredStateFile[i] # NoEntry => containerConfigs[i] # NoConfig
    /\ \A n \in Names : byName[n] = NoEntry
    /\ \A p \in Projects : composeStates[p] # NoEntry => composeConfigs[p]

\* C16: a container Create answered with success has stored the config and an
\* entry with desired_state = "running" for the new id; a container Delete
\* answered with success has removed both.
C16_CreateDeleteComplete ==
    /\ (last.op = "Create" /\ last.code = "ok") =>
          /\ containerConfigs[last.key] # NoConfig
          /\ desiredStateFile[last.key].desired_state = "running"
    /\ (last.op = "Delete" /\ last.code = "ok") =>
          /\ containerConfigs[last.key] = NoConfig
          /\ desiredStateFile[last.key] = NoEntry

Loadable == {Unmarshal(files[k]) : k \in {x \in Keys : Parsable(files[x])}}

\* C18: a list returns no error because of a document: one that cannot be read
\* or parsed when its turn comes, having been removed or damaged since the
\* scan or before, is skipped and the others are still returned; with nothing
\* changed during the list the result is exactly the documents that parse; a
\* missing kind directory gives the empty list.
C18_ListSkips ==
    /\ [](/\ listCall.err = "nil"
          /\ \A c \in listCall.out : c.Key \in listCall.scanned)
    /\ [][/\ (listCall.pc # "done" /\ listCall'.pc = "done") =>
                /\ ~listCall'.edited => listCall'.out = Loadable
                /\ ~dirExists => listCall'.out = {}
          /\ (listCall.pc = "read" /\ listCall'.todo # listCall.todo) =>
                LET k == CHOOSE x \in listCall.todo : x \notin listCall'.todo IN
                /\ listCall'.pc = "read"
                /\ listCall'.out = IF Parsable(files[k])
                                   THEN listCall.out \cup {Unmarshal(files[k])}
                                   ELSE listCall.out]_vars

C18_Witness ==
    /\ listCall.pc = "done" /\ listCall.edited
    /\ \E k, j \in listCall.scanned :
          /\ k < j
          /\ files[k] = NoFile
          /\ \A c \in listCall.out : c.Key # k
          /\ \E c \in listCall.out : c.Key = j

\* C19: in every kind, a load and a delete of a key that has no stored
\* document return NotFound.
C19_NotFound ==
    (lastOp.op \in {"load", "delete"} /\ ~lastOp.found) => lastOp.out = "NotFound"

\* C20: when the worker exited non-zero or waiting on it failed, BackupVolume
\* has returned an error and ListBackups returns exactly the entries it
\* returned before the call.
C20_NoNewEntry ==
    (backup.pc = "done" /\ backup.ret \in {"exit-nonzero", "wait-failed"}) =>
        ListBackups = backup.before

\* vocabulary of the backup properties
BackupFailed == backup.pc = "done" /\ backup.ret \notin {"", "nil"}
BackupSucceeded == backup.pc = "done" /\ backup.ret = "nil"
Range(f) == {f[i] : i \in DOMAIN f}
NewArchive == ArchiveName(Format(backup.n))

\* C21: when a BackupVolume call has returned an error (directory creation,
\* worker create, start or wait, non-zero exit, rename), every entry the
\* backup directory held when the call began is still there unchanged, the
\* volume config is what it was, and no commit has been added.
C21_FailedBackupFrame ==
    BackupFailed =>
        /\ backup.start.archives \subseteq archives
        /\ volume = backup.start.volume
        /\ commits = backup.start.commits

\* a rename fails after an earlier call has succeeded and recorded its backup
C21_Witness ==
    /\ BackupFailed
    /\ backup.ret = "rename-failed"
    /\ backup.start.commits # <<>>
    /\ backup.start.volume # NoFile
    /\ backup.start.volume.LastBackup # <<>>
    /\ \E e \in backup.start.archives : e.ModTime > 0

\* C22: when BackupVolume has returned success for trigger time t,
\* ListBackups holds exactly one entry it did not hold before the call, that
\* entry's timestamp is t, and the volume config, if there is one, has
\* last_backup equal to t as the call formats it.
C22_OneNewEntry ==
    BackupSucceeded =>
        /\ \E b \in Range(ListBackups.Backups) :
              /\ Range(ListBackups.Backups) \ Range(backup.before.Backups) = {b}
              /\ b.Timestamp = backup.n
        /\ volume # NoFile => volume.LastBackup = <<Format(backup.n)>>

\* C23: when a successful call's retention has read the config and the
\* directory and no stat or removal failed, an entry is gone if and only if
\* it is a file ending in .tar.gz modified more than retention_days before
\* now (30 days when retention_days is zero or negative), and the archive the
\* call made is there.
C23_Retention ==
    (BackupSucceeded /\ backup.swept /\ backup.stuck = {}) =>
        LET days == IF volume.RetentionDays > 0 THEN volume.RetentionDays
                    ELSE DefaultRetentionDays
            made == CHOOSE e \in archives : e.Name = NewArchive
        IN  /\ \E e \in archives : e.Name = NewArchive
            /\ archives \subseteq backup.start.archives \cup {made}
            /\ \A e \in backup.start.archives :
                  e \notin archives <=>
                      (~e.IsDir /\ e.Name.Ext = ".tar.gz"
                          /\ e.ModTime < backup.n - days)

\* archives 45, 20 and 5 days old, retention_days 30 and, then, 5 and unset
C23_Witness ==
    /\ BackupSucceeded /\ backup.swept /\ backup.stuck = {}
    /\ backup.n = 1
    /\ Existing \subseteq backup.start.archives
    /\ volume.RetentionDays = 30
    /\ {e.ModTime : e \in archives \cap Existing} = {-19, -4}

\* C24: once the archive is renamed into place the call returns success,
\* whatever happens in the retention, and when the retention reached its loop
\* every expired archive is gone but the ones whose stat or removal failed.
C24_RetentionBestEffort ==
    /\ (backup.pc = "done" /\ \E e \in archives : e.Name = NewArchive)
            => backup.ret = "nil"
    /\ (BackupSucceeded /\ backup.swept) =>
            \A e \in backup.start.archives :
                (~e.IsDir /\ e.Name.Ext = ".tar.gz"
                    /\ e.ModTime < backup.n
                        - (IF volume.RetentionDays > 0 THEN volume.RetentionDays
                           ELSE DefaultRetentionDays))
                    => (e \in archives <=> e \in backup.stuck)

\* one expired archive could not be removed, another one was
C24_Witness ==
    /\ BackupSucceeded /\ backup.swept
    /\ backup.stuck # {}
    /\ \E e \in backup.start.archives : e \notin archives

\* C27: ListBackups returns no error; for a directory that does not exist the
\* list is empty; otherwise it has one entry per non-directory entry ending
\* in .tar.gz, with the timestamp its name gives, or its modification time
\* when the name is not a timestamp, and later timestamps come first.
C27_ListBackups ==
    LET L == ListBackups.Backups
        listed == {e \in ReadDir : ~e.IsDir /\ e.Name.Ext = ".tar.gz"}
    IN  /\ ListBackups.Err = "nil"
        /\ ~backupDir => L = <<>>
        /\ backupDir =>
              /\ Len(L) = Cardinality(listed)
              /\ \A e \in listed : \E i \in 1..Len(L) :
                    /\ L[i].Filename = e.Name
                    /\ L[i].SizeBytes = e.Size
                    /\ L[i].Timestamp =
                          IF e.Name.Base = "stamp" THEN e.Name.T ELSE e.ModTime
              /\ \A i, j \in 1..Len(L) :
                    i < j => L[i].Timestamp >= L[j].Timestamp

\* a directory with timestamped archives, a .tar.gz of another name, a
\* directory, a text file and an unfinished backup.tar.gz
C27_Witness ==
    /\ Existing \cup Strays \subseteq archives
    /\ tmpFile # NoFile
    /\ Len(ListBackups.Backups) = Cardinality(Existing) + 2

\* vocabulary of the schedule properties
JobsOf(entries, k) == {i \in DOMAIN entries : entries[i].Name = k}
Wanted(configs, k) ==
    configs[k] # NoFile /\ configs[k].Enabled /\ configs[k].Schedule # ""
StartCompletes ==
    \/ ~schedStarted /\ schedStarted'
    \/ \E p \in Procs : volReq[p].pc = "Start" /\ volReq'[p].pc = "done"
RequestCompletes ==
    \E p \in Procs :
        /\ volReq[p].pc = "Start" \/ volReq'[p].turn # volReq[p].turn
        /\ volReq'[p].pc = "done"
        /\ volReq'[p].code = "success"

\* C25: at the step in which Scheduler.Start returns, at boot or as the second
\* half of RefreshSchedule, the cron in use holds exactly one job for every
\* volume config of the store that is enabled with a non-empty schedule, and
\* none for any other volume.
C25_OneJobPerVolume ==
    [][StartCompletes =>
        \A k \in Keys :
            Cardinality(JobsOf(cron'.entries, k))
                = IF Wanted(volumeFiles, k) THEN 1 ELSE 0]_vars

\* C26: at the step in which a volume Create, Update or Delete request is
\* answered with success, the cron in use holds, for every volume config then
\* in the store that is enabled with a non-empty schedule, exactly one job,
\* with the schedule of that config, and no job for any other volume.
C26_JobsFollowConfigs ==
    [][RequestCompletes =>
        \A k \in Keys :
            IF Wanted(volumeFiles', k)
            THEN \E i \in JobsOf(cron'.entries, k) :
                    /\ JobsOf(cron'.entries, k) = {i}
                    /\ cron'.entries[i].Schedule = volumeFiles'[k].Schedule
            ELSE JobsOf(cron'.entries, k) = {}]_vars

\* vocabulary of the git properties
Called(op) == repo'.calls # repo.calls /\ repo'.last[1] = op

\* C29: a CommitChanges call adds a commit only when the working tree differs
\* from HEAD, and the commit is of the whole tree; on a clean tree it adds
\* none and, unless staging or the status check fails, returns nil; a call
\* that follows a CommitChanges that returned nil, with no write between,
\* adds none; Push and Pull on a repository without a remote return nil,
\* contact nothing and leave the repository as it is.
C29_CommitIfDirty ==
    [][/\ Called("CommitChanges") =>
            /\ repo'.log # repo.log =>
                  /\ repo.tree # repo.head
                  /\ repo'.log = Append(repo.log, repo.tree)
                  /\ repo'.head = repo.tree
            /\ repo.tree = repo.head =>
                  /\ repo'.log = repo.log
                  /\ repo'.last[2] \in {"nil", "stage-failed", "status-failed"}
            /\ repo.last = <<"CommitChanges", "nil">> => repo'.log = repo.log
            /\ repo'.tree = repo.tree
       /\ (Called("Push") \/ Called("Pull")) /\ ~repo.remote =>
            /\ repo'.last[2] = "nil"
            /\ ~repo'.contacted
            /\ repo'.log = repo.log /\ repo'.tree = repo.tree
            /\ repo'.head = repo.head]_vars

\* two CommitChanges calls in a row on a dirty tree without a remote: one
\* commit
C29_Witness ==
    /\ ~repo.remote
    /\ repo.before = <<"CommitChanges", "nil">>
    /\ repo.last = <<"CommitChanges", "nil">>
    /\ Len(repo.log) = 1
    /\ repo.calls = 2

\* C30: when a pass has loaded a document without entries, it has issued no
\* create, start or stop command and it returns no error.
C30_EmptyDocumentNoOp ==
    (PassDone /\ LoadOK /\ Entries = {}) =>
        /\ \A k \in DOMAIN calls : calls[k].cmd \notin Commands
        /\ err = "nil"

\* what one entry of the range loop does to the runtime when no call fails
\* (manager.go 52-99), s being the runtime and the next free container id
EntryAlone(s, idx, i) ==
    LET cfg == LoadContainerConfig(containerConfigs, i)
        desired == LoadDesiredState(desiredStateFile)[i].desired_state
    IN
    IF cfg = NoConfig THEN s
    ELSE IF cfg.Name \notin DOMAIN idx
    THEN IF MissingPlan(desired) = "CreateContainer" /\ CanCreate(s.rt, cfg.Name)
         THEN [rt |-> StartContainer(CreateContainer(s.rt, cfg.Name, s.nid), s.nid),
               nid |-> s.nid + 1]
         ELSE s
    ELSE LET plan == Reconcile(desired, GetContainerStatus(s.rt, idx[cfg.Name])) IN
         IF plan = "StartExisting"
         THEN [s EXCEPT !.rt = StartContainer(s.rt, idx[cfg.Name])]
         ELSE IF plan = "StopExisting"
         THEN [s EXCEPT !.rt = StopContainer(s.rt, idx[cfg.Name])]
         ELSE s

\* the runtimes a pass may end with, over every order of the range loop
RECURSIVE Alone(_, _, _)
Alone(s, idx, rest) ==
    IF rest = {} THEN {s.rt}
    ELSE UNION {Alone(EntryAlone(s, idx, i), idx, rest \ {i}) : i \in rest}

\* which containers exist and the status of each
StateOf(rt) == [n \in Names |-> IF rt[n] = Absent THEN "absent" ELSE rt[n].state]

AloneFrom(rt) ==
    {StateOf(r) :
        r \in Alone([rt |-> rt, nid |-> NumNames + 1],
                    BuildIndex(ListContainers(rt)),
                    DOMAIN LoadDesiredState(desiredStateFile))}

PeerDone == peer.pc = "idle" /\ peer.afterPass # <<>>

BothDone == PassDone /\ PeerDone /\ failures = 0

\* the pass that ran while the other had not begun ends as AloneFrom says
AloneAgrees ==
    (PassDone /\ failures = 0 /\ peer.pc = "idle" /\ peer.afterPass = <<>>) =>
        StateOf(afterPass[1]) \in AloneFrom(peer.start)

\* C28: two passes running side by side over the same document and runtime,
\* with no call failing on its own account, leave the runtime in a state that
\* one pass alone, started from the same runtime, could have left.
C28_ConcurrentAsAlone ==
    BothDone => StateOf(dockerContainers) \in AloneFrom(peer.start)

\* the same, over configs with pairwise distinct names
C28_DistinctNames ==
    (BothDone /\ DistinctNames) => StateOf(dockerContainers) \in AloneFrom(peer.start)

\* vocabulary of the step-by-step backup
Did(c, event) == \E k \in DOMAIN job[c].did : job[c].did[k] = event

Precedes(c, a, b) ==
    \A k \in DOMAIN job[c].did :
        job[c].did[k] = b => \E j \in 1..(k - 1) : job[c].did[j] = a

Returned(c) == job[c].pc = "done"

\* C31: within one BackupVolume call the archive is renamed only after exit
\* code 0 was observed, last_backup is written only after the rename succeeded,
\* the commit comes after the config update, retention after the commit, and
\* a worker that was created has been removed when the call returns.
C31_StepOrder ==
    \A c \in Callers :
        /\ Precedes(c, "exit-0", "rename")
        /\ Precedes(c, "rename", "last_backup")
        /\ Precedes(c, "last_backup", "commit")
        /\ Precedes(c, "commit", "cleanup")
        /\ (Returned(c) /\ Did(c, "create")) =>
              /\ Did(c, "remove")
              /\ job[c].worker = "removed"
        /\ (job[c].ret = "nil" /\ Returned(c)) => Did(c, "cleanup")

C31_Witness ==
    \E c, d \in Callers :
        /\ Returned(c) /\ job[c].ret = "nil" /\ Did(c, "cleanup")
        /\ Returned(d) /\ job[d].ret = "exit-nonzero" /\ Did(d, "remove")

Succeeded == {c \in Callers : Returned(c) /\ job[c].ret = "nil"}

NewEntries == {t \in Stamps : disk.arch[t] # ""}

\* C38: when every overlapping call has returned, each successful one has
\* an archive under its own timestamp holding the output of its own worker and
\* of no other, and there are as many new archives as successful calls.
C38_OwnArchive ==
    (\A c \in Callers : Returned(c)) =>
        /\ \A c \in Succeeded :
              /\ disk.arch[job[c].stamp] # ""
              /\ disk.content[disk.arch[job[c].stamp]] = {c}
        /\ Cardinality(NewEntries) = Cardinality(Succeeded)

\* C40: a restore of a file that is not in the backup directory returns an
\* error, launches no worker and leaves the volume as it was; no restore
\* changes what ListBackups returns; a worker seen to exit with a code other
\* than 0 makes the call return an error.
C40_Restore ==
    restore.pc # "idle" =>
        /\ ListBackups = restore.before[1]
        /\ Stat(restore.file) = "not-exist" =>
              /\ restore.pc = "done"
              /\ restore.ret = "not-found"
              /\ ~restore.launched /\ restore.worker = "none"
              /\ data = restore.before[2]
        /\ (restore.pc = "done" /\ restore.ret = "nil") => data.from = restore.file
        /\ restore.seen = "exited-1" => restore.pc = "done" /\ restore.ret # "nil"

C40_Witness ==
    /\ restore.pc = "done" /\ restore.n > 1
    /\ restore.ret = "not-found"
    /\ data.state = "restored"
    /\ archives # {}

\* entries whose name is that of a container without the managed label
OnForeign ==
    {i \in Managed : /\ dockerContainers[NameOf(i)] # Absent
                     /\ dockerContainers[NameOf(i)].id \in foreign}

\* C32: a container that has an entity's name but not the managed label is
\* taken for the entity: the pass asks for no create, starts or stops it as the
\* entry's desired state and its live status call for, and returns no error.
C32_NameOnly ==
    PassDone =>
        /\ err = "nil"
        /\ \A i \in OnForeign :
              /\ ~Issued(i, "create")
              /\ Served(i)
              /\ (\A j \in Managed : NameOf(j) = NameOf(i) => j = i) =>
                    /\ Desired(i) = "running" => IsRunning(NameOf(i))
                    /\ Desired(i) = "stopped" => ~IsRunning(NameOf(i))

C32_Witness ==
    /\ PassDone
    /\ \E i, j \in OnForeign :
          /\ Desired(i) = "running" /\ Issued(i, "start")
          /\ Desired(j) = "stopped" /\ Issued(j, "stop")

Hosted == kind \in {"GitHub", "GitLab"}

MainOrMaster == payloadRef \in {"refs/heads/main", "refs/heads/master"}

\* C33: a GitHub or GitLab webhook for a ref other than main or master is
\* answered without a pull and without a pass, the store, the remote and the
\* runtime staying as they were; one for main or master makes one pull, and at
\* most one pass, begun after the pull returned.
C33_RefFilter ==
    /\ []((Hosted /\ payloadRef # "invalid" /\ ~MainOrMaster) =>
            /\ handler = "done" /\ response = "ignored"
            /\ pullErr = "unset"
            /\ ~PassBegun /\ calls = <<>> /\ afterPass = <<>>)
    /\ []((Hosted /\ MainOrMaster) =>
            /\ pullErr # "unset"
            /\ Len(afterPass) <= 1
            /\ PassBegun => pullErr = "nil")
    /\ [][/\ (Hosted' /\ ~MainOrMaster') => UNCHANGED <<store, remote, runtime>>
          /\ pullErr # "unset" => pullErr' = pullErr
          /\ (PassBegun /\ pc' = "LoadDesiredState") => pc = "LoadDesiredState"]_vars

C33_Witness ==
    /\ kind = "GitLab" /\ payloadRef = "refs/heads/master"
    /\ handler = "done" /\ response = "success" /\ Len(afterPass) = 1
    /\ \E k \in DOMAIN calls : calls[k].cmd = "start" /\ calls[k].ok

Completed(op) == requests' = requests + 1 /\ last'.op = op

\* C34: a Start or Stop request answered with an error (the id resolves to no
\* container, or the runtime call fails) leaves the desired-state document as
\* it was and makes no commit; a Restart request never changes the document.
C34_FailedStartStop ==
    [][/\ ((Completed("Start") \/ Completed("Stop")) /\ last'.code # "ok") =>
             /\ UNCHANGED <<desiredStateFile, byName>>
             /\ ~last'.commit
       /\ Completed("Restart") => UNCHANGED <<desiredStateFile, byName>>]_vars

C34_Witness ==
    /\ last.op = "Stop" /\ last.code = "FAILED" /\ last.key \in Ids
    /\ containerConfigs[last.key] # NoConfig
    /\ desiredStateFile[last.key] = ContainerState("running")

\* C35: after any sequence of Create, Update, Start and Stop requests that all
\* completed without an I/O or runtime failure, the desired_state of every managed id's config file equals the desired_state
\* of its entry in the desired-state document.
C35_DesiredStateAgrees ==
    failures = 0 =>
        \A id \in Ids :
            (cfgDesired[id] # "" /\ desiredStateFile[id] # NoEntry) =>
                cfgDesired[id] = desiredStateFile[id].desired_state

\* C39: a Create request answered with an error leaves the runtime, the config
\* store and the desired-state document as they were before the request.
C39_CreateRollsBack ==
    [][(Completed("Create") /\ last'.code # "ok") =>
          UNCHANGED <<dockerContainers, containerConfigs, desiredStateFile>>]_vars

\* C37: once every RefreshSchedule call begun by the volume requests has
\* returned with success, the scheduler in use holds at most one job for each
\* volume, also when two of the calls overlapped.
C37_OneJobAfterRefresh ==
    (schedStarted /\ \A p \in Procs : volReq[p].pc = "done"
                                      /\ volReq[p].code = "success") =>
        \A k \in Keys : Cardinality(JobsOf(cron.entries, k)) <= 1

\* C36: once a Stop request answered with success and a pass that ran at the
\* same time have both completed, the container of the request, when no other
\* config shares its name, is not running while the document holds
\* desired_state stopped for it.
C36_StopVersusPass ==
    (/\ PassDone
     /\ stopReq.pc = "done" /\ stopReq.code = "ok"
     /\ \A j \in Managed : NameOf(j) = NameOf(stopReq.id) => j = stopReq.id) =>
        ~(/\ IsRunning(NameOf(stopReq.id))
          /\ Desired(stopReq.id) = "stopped")

====
